---- MODULE Spec2Model ----
(***************************************************************************)
(* Record stores of the LLview scrapers (prometheus.py Info, gitlab.py     *)
(* BenchRepo) and the file-mode aggregation of files.py, as state machines.*)
(*                                                                         *)
(* Python strings are sequences of one-character strings, so that regular  *)
(* expressions, substring tests and quote replacement are computed.        *)
(* Python dicts are association lists <<key, value>> in insertion order.   *)
(* A value is tagged: [t |-> "str" | "none" | "dict", v |-> payload].      *)
(***************************************************************************)
EXTENDS Integers, Sequences, FiniteSets, TLC

\* ------------------------------------------------------------------ bounds
MaxSteps == 3

\* ----------------------------------------------------------------- strings
Range(s) == {s[i] : i \in 1..Len(s)}

Suffix(s, k) == SubSeq(s, k, Len(s))

StartsWith(s, p) == Len(p) <= Len(s) /\ SubSeq(s, 1, Len(p)) = p

\* Python `p in s` for two strings
IsSubstr(p, s) == \E k \in 1..(Len(s) + 1) : StartsWith(Suffix(s, k), p)

\* str.replace(old, new) for a one-character `old`
RECURSIVE Replace(_, _, _)
Replace(s, old, new) ==
  IF s = <<>> THEN <<>>
  ELSE (IF Head(s) = old THEN new ELSE <<Head(s)>>) \o Replace(Tail(s), old, new)

\* ------------------------------------------------------ regular expressions
\* A pattern is a sequence of tokens: a literal character, "." (any one
\* character) or ".*" (any run of characters).
RECURSIVE MatchHere(_, _)
MatchHere(pat, text) ==
  IF pat = <<>> THEN TRUE
  ELSE IF Head(pat) = ".*"
    THEN \E k \in 1..(Len(text) + 1) : MatchHere(Tail(pat), Suffix(text, k))
  ELSE IF text = <<>> THEN FALSE
  ELSE (Head(pat) = "." \/ Head(pat) = Head(text)) /\ MatchHere(Tail(pat), Tail(text))

\* re.match: the pattern matches at the first character of the text
re_match(pat, text) == MatchHere(pat, text)

\* re.search: the pattern matches at some position of the text
re_search(pat, text) == \E k \in 1..(Len(text) + 1) : MatchHere(pat, Suffix(text, k))

\* ------------------------------------------------------------------- dicts
VStr(s) == [t |-> "str", v |-> s]
VNone == [t |-> "none", v |-> <<>>]
VDict(d) == [t |-> "dict", v |-> d]

Keys(d) == [i \in 1..Len(d) |-> d[i][1]]
KeySet(d) == {d[i][1] : i \in 1..Len(d)}
Has(d, k) == \E i \in 1..Len(d) : d[i][1] = k
Get(d, k) == d[CHOOSE i \in 1..Len(d) : d[i][1] = k][2]
\* dict.get(k): None when the key is absent
GetOrNone(d, k) == IF Has(d, k) THEN Get(d, k) ELSE VNone
\* d[k] = v: an existing key keeps its position, a new key goes last
Put(d, k, v) ==
  IF Has(d, k) THEN [i \in 1..Len(d) |-> IF d[i][1] = k THEN <<k, v>> ELSE d[i]]
  ELSE Append(d, <<k, v>>)
Del(d, k) == SelectSeq(d, LAMBDA e : e[1] # k)
\* d |= e
RECURSIVE Update(_, _)
Update(d, e) == IF e = <<>> THEN d ELSE Update(Put(d, e[1][1], e[1][2]), Tail(e))

\* the dict reached from D along a path of keys, and D with that dict replaced
RECURSIVE At(_, _)
At(D, path) == IF path = <<>> THEN D ELSE At(Get(D, Head(path)).v, Tail(path))
RECURSIVE SetAt(_, _, _)
SetAt(D, path, new) ==
  IF path = <<>> THEN new
  ELSE Put(D, Head(path), VDict(SetAt(Get(D, Head(path)).v, Tail(path), new)))

\* ------------------------------------------------------------- Info.add
\* add(to_add, add_to): deep merge of to_add into the dict at `path` of
\* self._dict. The state threaded through is [d |-> self._dict, w |-> the
\* top-level keys that were assigned a new object]. `if not add_to` is true
\* for None and for an empty dict alike: both select self._dict itself.
RECURSIVE add(_, _, _), addItems(_, _, _)
addItems(st, items, path) ==
  IF items = <<>> THEN st
  ELSE LET bk == items[1][1]
           bv == items[1][2]
           tgt == At(st.d, path)
           av == GetOrNone(tgt, bk)
           st1 == IF av.t = "dict" /\ bv.t = "dict"
                    THEN add(st, bv.v, path \o <<bk>>)
                    ELSE [d |-> SetAt(st.d, path, Put(tgt, bk, bv)),
                          w |-> IF path = <<>> THEN st.w \cup {bk} ELSE st.w]
       IN addItems(st1, Tail(items), path)
add(st, to_add, path) ==
  LET target == IF At(st.d, path) = <<>> THEN <<>> ELSE path
  IN addItems(st, to_add, target)

\* the records of _raw that are the same objects as records of _dict
\* (after `_dict |= _raw`) follow the changes made in place through _dict
Mirror(rawd, d, sh) ==
  [i \in 1..Len(rawd) |->
     IF rawd[i][1] \in sh /\ Has(d, rawd[i][1])
       THEN <<rawd[i][1], Get(d, rawd[i][1])>> ELSE rawd[i]]

\* ------------------------------------------------- check_unit, apply_pattern
\* A rule is a pattern string, a list of pattern strings and dict rules, or
\* a dict rule (field name -> pattern string or list of pattern strings).
RStr(p) == [t |-> "str", v |-> p]
RList(items) == [t |-> "list", v |-> items]
RDict(items) == [t |-> "dict", v |-> items]
\* Python truth value of a rule: '', [] and {} are false
Truthy(rule) == rule.v # <<>>

\* Info.check_unit tests with re.match, BenchRepo.check_unit with re.search
rx(cls, pat, text) == IF cls = "Info" THEN re_match(pat, text) ELSE re_search(pat, text)

\* `(key in unit) and re.match(pat, unit[key])`: "T", "F", or "E" when it
\* raises TypeError (unit or unit[key] is not of the type the test needs)
CheckValue(cls, unit, key, pat) ==
  CASE unit.t = "dict" ->
         IF ~Has(unit.v, key) THEN "F"
         ELSE IF Get(unit.v, key).t # "str" THEN "E"
         ELSE IF rx(cls, pat, Get(unit.v, key).v) THEN "T" ELSE "F"
    [] unit.t = "str" -> IF IsSubstr(key, unit.v) THEN "E" ELSE "F"
    [] OTHER -> "E"

RECURSIVE CheckValueList(_, _, _, _)
CheckValueList(cls, unit, key, pats) ==
  IF pats = <<>> THEN "F"
  ELSE LET r == CheckValue(cls, unit, key, Head(pats).v)
       IN IF r = "F" THEN CheckValueList(cls, unit, key, Tail(pats)) ELSE r

RECURSIVE CheckDictRule(_, _, _)
CheckDictRule(cls, unit, items) ==
  IF items = <<>> THEN "F"
  ELSE LET key == items[1][1]
           value == items[1][2]
           r == CASE value.t = "str" -> CheckValue(cls, unit, key, value.v)
                  [] value.t = "list" -> CheckValueList(cls, unit, key, value.v)
                  [] OTHER -> "F"
       IN IF r = "F" THEN CheckDictRule(cls, unit, Tail(items)) ELSE r

RECURSIVE CheckListRule(_, _, _, _)
CheckListRule(cls, unitname, unit, items) ==
  IF items = <<>> THEN "F"
  ELSE LET pat == Head(items)
           r == CASE pat.t = "str" -> IF rx(cls, pat.v, unitname) THEN "T" ELSE "F"
                  [] pat.t = "dict" -> CheckDictRule(cls, unit, pat.v)
                  [] OTHER -> "F"
       IN IF r = "F" THEN CheckListRule(cls, unitname, unit, Tail(items)) ELSE r

check_unit(cls, unitname, unit, pattern) ==
  CASE pattern.t = "str" -> IF rx(cls, pattern.v, unitname) THEN "T" ELSE "F"
    [] pattern.t = "list" -> CheckListRule(cls, unitname, unit, pattern.v)
    [] pattern.t = "dict" -> CheckDictRule(cls, unit, pattern.v)
    [] OTHER -> "F"

\* the first loop of apply_pattern: the names collected in to_remove, a list
\* in Info (a unit can be appended twice) and a set in BenchRepo
Collect_First(cls, rm, name) == IF rm = <<>> THEN <<name>> ELSE rm
Collect(cls, rm, name) ==
  IF cls = "Info" \/ name \notin Range(rm) THEN Append(rm, name) ELSE rm

RECURSIVE ToRemove(_, _, _, _, _, _)
ToRemove(cls, d, exclude, include, k, rm) ==
  IF k > Len(d) THEN [rm |-> rm, err |-> "none"]
  ELSE LET unitname == d[k][1]
           unit == d[k][2]
           ex == IF Truthy(exclude) THEN check_unit(cls, unitname, unit, exclude) ELSE "F"
           rm1 == IF ex = "T" THEN Collect(cls, rm, unitname) ELSE rm
           inc == IF Truthy(include) THEN check_unit(cls, unitname, unit, include) ELSE "T"
           rm2 == IF inc = "F" THEN Collect(cls, rm1, unitname) ELSE rm1
       IN IF ex = "E" \/ inc = "E" THEN [rm |-> rm, err |-> "TypeError"]
          ELSE ToRemove(cls, d, exclude, include, k + 1, rm2)

\* the second loop: `del self._dict[unitname]` raises KeyError for a name
\* that is no longer a key
RECURSIVE DelAll(_, _)
DelAll(d, rm) ==
  IF rm = <<>> THEN [d |-> d, err |-> "none"]
  ELSE IF ~Has(d, Head(rm)) THEN [d |-> d, err |-> "KeyError"]
  ELSE DelAll(Del(d, Head(rm)), Tail(rm))

apply_pattern(cls, d, exclude, include) ==
  LET tr == ToRemove(cls, d, exclude, include, 1, <<>>)
  IN IF tr.err # "none" THEN [d |-> d, err |-> tr.err] ELSE DelAll(d, tr.rm)

\* ---------------------------------------------------------------- to_LML
K_id == <<"_", "_", "i", "d">>
K_type == <<"_", "_", "t", "y", "p", "e">>
K_prefix == <<"_", "_", "p", "r", "e", "f", "i", "x">>
K_nelems == <<"_", "_", "n", "e", "l", "e", "m", "s">>
Quote == "\""

\* the first value of the sequence number when the file name has "percore"
PercoreStart == 700

DigitChar(n) == <<"0", "1", "2", "3", "4", "5", "6", "7", "8", "9">>[n + 1]
RECURSIVE Decimal(_)
Decimal(n) == IF n < 10 THEN <<DigitChar(n)>> ELSE Decimal(n \div 10) \o <<DigitChar(n % 10)>>
\* math.ceil(math.log10(n)) + 1 in its place
Log10Digits_Ceil(n) ==
  1 + CHOOSE e \in 0..n : 10^e >= n /\ \A j \in 0..(e - 1) : 10^j < n
\* int(math.log10(n)) + 1 for n > 0
RECURSIVE Log10Digits(_)
Log10Digits(n) == IF n < 10 THEN 1 ELSE 1 + Log10Digits(n \div 10)
RECURSIVE Zeros(_)
Zeros(n) == IF n <= 0 THEN <<>> ELSE <<"0">> \o Zeros(n - 1)
\* f'{i:0{digits}d}'
PadInt(i, digits) == Zeros(digits - Len(Decimal(i))) \o Decimal(i)

\* '{}'.format(value)
Fmt(value) ==
  CASE value.t = "str" -> value.v
    [] value.t = "none" -> <<"N", "o", "n", "e">>
    [] OTHER -> <<"{", "}">>

\* the value written in a <data> element by Info/BenchRepo.to_LML
DataValue(value) ==
  IF value.t = "str" THEN Replace(value.v, Quote, <<"'">>) ELSE Fmt(value)

\* `if "__id" not in item`
NeedsId_Always(rec) == TRUE
NeedsId(rec) == ~Has(rec, K_id)

\* the loop over self._dict.items() that writes <objects>; st is
\* [d |-> self._dict, i |-> counter, objs |-> lines written, err |-> exception]
RECURSIVE ObjectsLoop(_, _, _, _, _)
ObjectsLoop(st, k, prefix, stype, digits) ==
  IF k > Len(st.d) THEN st
  ELSE
    LET key == st.d[k][1]
        item == st.d[k][2]
    IN IF item.t # "dict" THEN [st EXCEPT !.err = "TypeError"]
       ELSE IF NeedsId(item.v) /\ prefix = <<>> /\ ~Has(item.v, K_prefix)
         THEN [st EXCEPT !.err = "KeyError"]
       ELSE
         LET needs == NeedsId(item.v)
             pfx == IF prefix # <<>> THEN prefix ELSE Fmt(Get(item.v, K_prefix))
             rec == IF needs
                      THEN Put(item.v, K_id, VStr(pfx \o PadInt(st.i, digits)))
                      ELSE item.v
             d1 == [st.d EXCEPT ![k] = <<key, VDict(rec)>>]
             i1 == IF needs THEN st.i + 1 ELSE st.i
         IN IF stype = <<>> /\ ~Has(rec, K_type)
              THEN [d |-> d1, i |-> i1, objs |-> st.objs, err |-> "KeyError"]
              ELSE ObjectsLoop(
                     [d |-> d1, i |-> i1, err |-> "none",
                      objs |-> Append(st.objs,
                                 [id |-> Fmt(Get(rec, K_id)), name |-> key,
                                  type |-> IF stype # <<>> THEN stype
                                           ELSE Fmt(Get(rec, K_type))])],
                     k + 1, prefix, stype, digits)

\* the <data> elements of one record, in the order of its fields
RECURSIVE DataLines(_, _)
DataLines(cls, rec) ==
  IF rec = <<>> THEN <<>>
  ELSE LET key == rec[1][1]
           value == rec[1][2]
           line == IF StartsWith(key, K_nelems)
                     THEN << <<IF cls = "Info" THEN Suffix(key, 3) ELSE key, Fmt(value)>> >>
                   ELSE IF StartsWith(key, <<"_", "_">>) THEN <<>>
                   ELSE IF value.t # "str" \/ value.v # <<>>
                     THEN << <<key, DataValue(value)>> >>
                   ELSE <<>>
       IN line \o DataLines(cls, Tail(rec))

InfoBlocks(cls, d) ==
  [k \in 1..Len(d) |-> [oid |-> Fmt(Get(d[k][2].v, K_id)), name |-> d[k][1],
                        data |-> DataLines(cls, d[k][2].v)]]

\* to_LML(filename, prefix, stype): the records with their ids, and the file
to_LML(cls, d, percore, prefix, stype) ==
  LET digits == IF Len(d) > 0 THEN Log10Digits(Len(d)) ELSE 1
      start == IF cls = "Info" /\ percore THEN PercoreStart ELSE 0
      st == ObjectsLoop([d |-> d, i |-> start, objs |-> <<>>, err |-> "none"],
                        1, prefix, stype, digits)
  IN IF st.err # "none"
       THEN [d |-> st.d, err |-> st.err,
             file |-> [objects |-> st.objs, infos |-> <<>>, closed |-> FALSE]]
       ELSE [d |-> st.d, err |-> "none",
             file |-> [objects |-> st.objs, infos |-> InfoBlocks(cls, st.d),
                       closed |-> TRUE]]

\* ------------------------------------------------------------------- map
\* the inner loop of map over mapping_dict for one record (a dict)
RECURSIVE MapFields(_, _, _)
MapFields(item, mapping, acc) ==
  IF mapping = <<>> THEN acc
  ELSE MapFields(item, Tail(mapping),
                 IF Has(item, mapping[1][1])
                   THEN Put(acc, mapping[1][2], Get(item, mapping[1][1]))
                   ELSE acc)

\* the internal keys copied after the mapped ones
RECURSIVE CopyInternal(_, _, _)
CopyInternal(item, keys, acc) ==
  IF keys = <<>> THEN acc
  ELSE CopyInternal(item, Tail(keys),
                    IF Has(item, Head(keys)) THEN Put(acc, Head(keys), Get(item, Head(keys)))
                    ELSE acc)

\* new_dict[unit] for one item of self._dict; a string item answers
\* `key in item` as a substring test and raises on item[key], None raises
MapItem_NoInternal(item, mapping) ==
  CASE item.t = "dict" -> [rec |-> MapFields(item.v, mapping, <<>>), err |-> "none"]
    [] OTHER -> [rec |-> <<>>, err |-> "TypeError"]
MapItem(item, mapping) ==
  CASE item.t = "dict" ->
         [rec |-> CopyInternal(item.v, <<K_type, K_id, K_prefix>>,
                               MapFields(item.v, mapping, <<>>)),
          err |-> "none"]
    [] item.t = "str" ->
         IF \/ \E i \in 1..Len(mapping) : IsSubstr(mapping[i][1], item.v)
            \/ \E k \in {K_type, K_id, K_prefix} : IsSubstr(k, item.v)
           THEN [rec |-> <<>>, err |-> "TypeError"]
           ELSE [rec |-> <<>>, err |-> "none"]
    [] OTHER -> [rec |-> <<>>, err |-> "TypeError"]

map(d, mapping) ==
  IF \E k \in 1..Len(d) : MapItem(d[k][2], mapping).err # "none"
    THEN [d |-> d, err |-> "TypeError"]
    ELSE [d |-> [k \in 1..Len(d) |-> <<d[k][1], VDict(MapItem(d[k][2], mapping).rec)>>],
          err |-> "none"]

\* ---------------------------------------------------------------- modify
\* the module globals a transform name can resolve to: quote (urllib.parse)
\* and deepcopy; every other name raises KeyError in globals()[funcname]
Defined(funcname) == funcname \in {"quote", "deepcopy"}

\* urllib.parse.quote of one character: letters and digits are kept
QuoteChar(c) ==
  CASE c = Quote -> <<"%", "2", "2">>
    [] c = "%" -> <<"%", "2", "5">>
    [] c = "(" -> <<"%", "2", "8">>
    [] c = ")" -> <<"%", "2", "9">>
    [] OTHER -> <<c>>
RECURSIVE QuoteText(_)
QuoteText(s) == IF s = <<>> THEN <<>> ELSE QuoteChar(Head(s)) \o QuoteText(Tail(s))

\* func(item[key]) for a defined function: [val, err]; quote raises
\* TypeError for a value that is not a string
CallFunc(funcname, val) ==
  IF funcname = "deepcopy" THEN [val |-> val, err |-> "none"]
  ELSE IF val.t = "str" THEN [val |-> VStr(QuoteText(val.v)), err |-> "none"]
  ELSE [val |-> val, err |-> "TypeError"]

\* the loop over the function names of one key: a name that is not
\* defined is logged and skipped
RECURSIVE ModifyNames_StopAtUnknown(_, _)
ModifyNames_StopAtUnknown(funcnames, val) ==
  IF funcnames = <<>> \/ ~Defined(Head(funcnames)) THEN [val |-> val, err |-> "none"]
  ELSE LET r == CallFunc(Head(funcnames), val)
       IN IF r.err # "none" THEN r ELSE ModifyNames_StopAtUnknown(Tail(funcnames), r.val)
RECURSIVE ModifyNames(_, _)
ModifyNames(funcnames, val) ==
  IF funcnames = <<>> THEN [val |-> val, err |-> "none"]
  ELSE IF ~Defined(Head(funcnames)) THEN ModifyNames(Tail(funcnames), val)
  ELSE LET r == CallFunc(Head(funcnames), val)
       IN IF r.err # "none" THEN r ELSE ModifyNames(Tail(funcnames), r.val)

\* the loop over modify_dict for one item: [item, err]; a key the item
\* lacks is skipped; an item that is not a dict raises as in map
RECURSIVE ModifyItem(_, _)
ModifyItem(item, modify_dict) ==
  IF modify_dict = <<>> THEN [item |-> item, err |-> "none"]
  ELSE LET key == modify_dict[1][1]
       IN CASE item.t = "dict" ->
                 IF ~Has(item.v, key) THEN ModifyItem(item, Tail(modify_dict))
                 ELSE LET r == ModifyNames(modify_dict[1][2], Get(item.v, key))
                          item1 == VDict(Put(item.v, key, r.val))
                      IN IF r.err # "none" THEN [item |-> item1, err |-> r.err]
                         ELSE ModifyItem(item1, Tail(modify_dict))
            [] item.t = "str" ->
                 IF IsSubstr(key, item.v) THEN [item |-> item, err |-> "TypeError"]
                 ELSE ModifyItem(item, Tail(modify_dict))
            [] OTHER -> [item |-> item, err |-> "TypeError"]

\* modify: the items are changed in place, one after the other
RECURSIVE modify(_, _, _)
modify(d, modify_dict, k) ==
  IF k > Len(d) THEN [d |-> d, err |-> "none"]
  ELSE LET r == ModifyItem(d[k][2], modify_dict)
           d1 == [d EXCEPT ![k] = <<d[k][1], r.item>>]
       IN IF r.err # "none" THEN [d |-> d1, err |-> r.err]
          ELSE modify(d1, modify_dict, k + 1)

\* ----------------------------------------------------------------- parse
\* the csv-like branch of parse for the units read from the command output:
\* self._raw[unit] = {} then "__prefix", "__type" and the columns, where
\* add_value stores "" for "(null)"
Null == <<"(", "n", "u", "l", "l", ")">>

add_value(rec, key, value) == Put(rec, key, VStr(IF value = Null THEN <<>> ELSE value))

RECURSIVE ParseColumns(_, _)
ParseColumns(rec, cols) ==
  IF cols = <<>> THEN rec
  ELSE ParseColumns(add_value(rec, cols[1][1], cols[1][2]), Tail(cols))

ParseUnit(cols, prefix, stype) ==
  LET r0 == <<>>
      r1 == IF prefix # <<>> THEN Put(r0, K_prefix, VStr(prefix)) ELSE r0
      r2 == IF stype # <<>> THEN Put(r1, K_type, VStr(stype)) ELSE r1
  IN ParseColumns(r2, cols)

RECURSIVE ParseUnits(_, _, _, _)
ParseUnits(rawd, units, prefix, stype) ==
  IF units = <<>> THEN rawd
  ELSE ParseUnits(Put(rawd, units[1][1], VDict(ParseUnit(units[1][2], prefix, stype))),
                  Tail(units), prefix, stype)

\* ------------------------------------------------------------ input sets
E_n0 == <<"n", "0">>
E_n1 == <<"n", "1">>
E_x0 == <<"x", "0">>
F_f == <<"f">>
F_g == <<"g">>
F_h == <<"h">>
F_J == <<"J">>
S_5 == <<"5">>
S_q == <<"a", Quote>>
S_i == <<"i">>
S_p == <<"p">>
S_item == <<"i", "t">>
S_node == <<"n", "d">>

\* command outputs read by parse: unit name and its columns
UnitsA ==
  << <<E_n0, << <<F_J, E_n0>>, <<F_f, S_5>>, <<F_g, Null>> >> >>,
     <<E_n1, << <<F_J, E_n1>>, <<F_f, S_q>> >> >> >>
UnitsB ==
  << <<E_x0, << <<F_J, E_x0>>, <<F_g, S_5>> >> >>,
     <<E_n0, << <<F_J, E_n0>>, <<F_f, E_n1>>, <<F_h, S_5>> >> >> >>

ParseInputs ==
  {[units |-> u, prefix |-> a[1], stype |-> a[2]] :
     u \in {UnitsA, UnitsB}, a \in {<<<<>>, <<>>>>, <<S_i, S_item>>, <<S_i, <<>>>>}}

MapInputs == { << <<F_f, F_g>>, <<F_h, F_f>> >>, << <<<<"z">>, F_f>> >> }

\* modify_dict: key -> function names (a comma separated string or a list)
ModifyInputs ==
  { << <<F_J, <<"nofunc">>>>, <<F_f, <<"quote", "nofunc", "quote">>>> >>,
    << <<<<"z">>, <<"quote">>>>, <<F_f, <<"int", "quote">>>>,
       <<F_h, <<"nofunc", "deepcopy">>>> >> }

NoRule == RStr(<<>>)
ExcludeRules ==
  {NoRule, RStr(<<"n", "0", ".*">>), RStr(<<"0">>),
   RDict(<< <<F_f, RStr(S_5)>> >>),
   RList(<<RStr(<<"x">>), RDict(<< <<F_g, RList(<<RStr(S_5)>>)>> >>)>>)}
IncludeRules == {NoRule, RStr(<<"n", ".*">>), RList(<<RStr(<<".", "1">>)>>)}

ToLMLInputs ==
  {[percore |-> FALSE, prefix |-> <<>>, stype |-> <<>>],
   [percore |-> FALSE, prefix |-> S_p, stype |-> S_node],
   [percore |-> TRUE, prefix |-> S_p, stype |-> <<>>]}

\* the other store of `A + B`: one left by parse, one left by parse and map
\* (its records are empty), one holding a None value set by add
OtherStores ==
  LET pb == ParseUnits(<<>>, UnitsB, S_i, S_item)
      pa == ParseUnits(<<>>, UnitsA, <<>>, <<>>)
  IN {[raw |-> pb, dict |-> pb],
      [raw |-> pa, dict |-> map(pa, << <<<<"z">>, F_f>> >>).d],
      [raw |-> <<>>, dict |-> << <<E_n1, VDict(<< <<F_g, VNone>> >>)>> >>]}

\* ------------------------------------------------------------ the store
VARIABLES
  cls,     \* "Info" (prometheus.py) or "BenchRepo" (gitlab.py)
  raw,     \* self._raw
  dict,    \* self._dict
  shared,  \* keys whose record is one object in _raw and _dict
  lml,     \* the LML file written by the last to_LML
  err,     \* the exception that ended the last call, or "none"
  last,    \* the last call: its name, arguments and the state it started in
  steps,   \* calls made
  aggregator,   \* OutputAggregator: group_name, default_map, file_context, output_specs
  all_records,  \* OutputAggregator.all_records
  outputs,      \* the files generate_outputs wrote, one per output specification
  parser,         \* FileParser.compiled_metrics
  file,           \* the file being read: its name and its lines
  raw_records,    \* what parse_file_content returned
  final_records,  \* what process_transformed_records returned
  stage,          \* main's position in its loop over the files
  tracker,        \* the processed_files tracker file of the group
  settled,        \* the files processed in an earlier run and discoverable ever since
  lastts,         \* the timestamp file: the last ts stored for the benchmark group
  plot            \* process_plotlist: the pool, its jobs and the shutdown file

aggregatorVars == <<aggregator, all_records, outputs>>
parserVars == <<parser, file, raw_records, final_records, stage>>
mainVars == <<tracker, settled, lastts, plot>>
vars == <<cls, raw, dict, shared, lml, err, last, steps, aggregator, all_records, outputs,
          parser, file, raw_records, final_records, stage, tracker, settled, lastts, plot>>

NoConfig == [group_name |-> <<>>, default_map |-> <<>>, file_context |-> {},
             output_specs |-> <<>>]

\* no pool yet
NoPool == [jobs |-> <<>>, results |-> <<>>, shutdown_file |-> FALSE,
           pool |-> "none", nerrors |-> 0, returned |-> FALSE]

\* no tracker file yet
NoTracker == [exists |-> FALSE, paths |-> {}]

NoFile == [objects |-> <<>>, infos |-> <<>>, closed |-> FALSE]

Call(op, x, y) ==
  [op |-> op, x |-> x, y |-> y, pre |-> dict, preraw |-> raw, prelml |-> lml,
   prevop |-> last.op, prevx |-> last.x, prevy |-> last.y]

Init ==
  /\ cls \in {"Info", "BenchRepo"}
  /\ raw = <<>>
  /\ dict = <<>>
  /\ shared = {}
  /\ lml = NoFile
  /\ err = "none"
  /\ last = [op |-> "init", x |-> <<>>, y |-> <<>>, pre |-> <<>>, preraw |-> <<>>,
             prelml |-> NoFile, prevop |-> "init", prevx |-> <<>>, prevy |-> <<>>]
  /\ steps = 0
  /\ aggregator = NoConfig
  /\ all_records = <<>>
  /\ outputs = <<>>
  /\ parser = <<>>
  /\ file = [name |-> <<>>, lines |-> <<>>]
  /\ raw_records = <<>>
  /\ final_records = <<>>
  /\ stage = "idle"
  /\ tracker = NoTracker
  /\ settled = {}
  /\ lastts = 0
  /\ plot = NoPool

\* an uncaught exception ends the script
CanCall == err = "none" /\ steps < MaxSteps

\* parse(cmd, prefix=..., stype=...), csv-like branch: `self._dict |= self._raw`
Parse ==
  \E in \in ParseInputs :
    /\ CanCall
    /\ raw' = ParseUnits(raw, in.units, in.prefix, in.stype)
    /\ dict' = Update(dict, raw')
    /\ shared' = KeySet(raw')
    /\ last' = Call("parse", in, <<>>)
    /\ steps' = steps + 1
    /\ UNCHANGED <<cls, lml, err, aggregator, all_records, outputs,
                   parser, file, raw_records, final_records, stage, mainVars>>

\* __add__: first._raw |= second._raw; first.add(second._dict)
Plus ==
  \E B \in OtherStores :
    LET r == add([d |-> dict, w |-> {}], B.dict, <<>>)
        sh == (shared \ KeySet(B.raw)) \ r.w
    IN /\ CanCall
       /\ dict' = r.d
       /\ raw' = Mirror(Update(raw, B.raw), r.d, sh)
       /\ shared' = sh
       /\ last' = Call("plus", B, <<>>)
       /\ steps' = steps + 1
       /\ UNCHANGED <<cls, lml, err, aggregator, all_records, outputs,
                   parser, file, raw_records, final_records, stage, mainVars>>

ApplyPattern ==
  \E ex \in ExcludeRules, inc \in IncludeRules :
    LET r == apply_pattern(cls, dict, ex, inc)
    IN /\ CanCall
       /\ dict' = r.d
       /\ err' = r.err
       /\ shared' = shared \cap KeySet(r.d)
       /\ last' = Call("apply_pattern", ex, inc)
       /\ steps' = steps + 1
       /\ UNCHANGED <<cls, raw, lml, aggregator, all_records, outputs,
                   parser, file, raw_records, final_records, stage, mainVars>>

Map ==
  \E m \in MapInputs :
    LET r == map(dict, m)
    IN /\ CanCall
       /\ dict' = r.d
       /\ err' = r.err
       /\ shared' = IF r.err = "none" THEN {} ELSE shared
       /\ last' = Call("map", m, <<>>)
       /\ steps' = steps + 1
       /\ UNCHANGED <<cls, raw, lml, aggregator, all_records, outputs,
                   parser, file, raw_records, final_records, stage, mainVars>>

\* modify(modify_dict): the records are shared with _raw where parse left
\* them so
Modify ==
  \E m \in ModifyInputs :
    LET r == modify(dict, m, 1)
    IN /\ CanCall
       /\ dict' = r.d
       /\ raw' = Mirror(raw, r.d, shared)
       /\ err' = r.err
       /\ last' = Call("modify", m, <<>>)
       /\ steps' = steps + 1
       /\ UNCHANGED <<cls, shared, lml, aggregator, all_records, outputs,
                   parser, file, raw_records, final_records, stage, mainVars>>

ToLML ==
  \E in \in ToLMLInputs :
    LET r == to_LML(cls, dict, in.percore, in.prefix, in.stype)
    IN /\ cls \in {"Info", "BenchRepo"}
       /\ CanCall
       /\ dict' = r.d
       /\ raw' = Mirror(raw, r.d, shared)
       /\ err' = r.err
       /\ lml' = r.file
       /\ last' = Call("to_LML", in, <<>>)
       /\ steps' = steps + 1
       /\ UNCHANGED <<cls, shared, aggregator, all_records, outputs,
                   parser, file, raw_records, final_records, stage, mainVars>>

Next == Parse \/ Plus \/ ApplyPattern \/ Map \/ Modify \/ ToLML

Spec == Init /\ [][Next]_vars

\* ====================================================== claims on the store
\* two records hold the same fields with the same values
SameRecord(r1, r2) ==
  /\ KeySet(r1) = KeySet(r2)
  /\ \A f \in KeySet(r1) : Get(r1, f) = Get(r2, f)

IsScalar(val) == val.t # "dict"

\* C1: after A + B the merged view has every entity key of A or of B; an
\* entity of exactly one of them has exactly the fields and values it had;
\* for an entity of both, a field of only one side is kept with its value
\* and a field of both sides with scalar values has B's value.
C1_MergeKeepsBothSides ==
  last.op = "plus" =>
    LET A == last.pre
        B == last.x.dict
    IN /\ \A k \in KeySet(A) \cup KeySet(B) : Has(dict, k)
       /\ \A k \in KeySet(A) \ KeySet(B) : Has(dict, k) /\ Get(dict, k) = Get(A, k)
       /\ \A k \in KeySet(B) \ KeySet(A) : Has(dict, k) /\ Get(dict, k) = Get(B, k)
       /\ \A k \in KeySet(A) \cap KeySet(B) :
            (Get(A, k).t = "dict" /\ Get(B, k).t = "dict") =>
              /\ Has(dict, k) /\ Get(dict, k).t = "dict"
              /\ LET a == Get(A, k).v
                     b == Get(B, k).v
                     m == Get(dict, k).v
                 IN /\ \A f \in KeySet(a) \ KeySet(b) : Has(m, f) /\ Get(m, f) = Get(a, f)
                    /\ \A f \in KeySet(b) \ KeySet(a) : Has(m, f) /\ Get(m, f) = Get(b, f)
                    /\ \A f \in KeySet(a) \cap KeySet(b) :
                         (IsScalar(Get(a, f)) /\ IsScalar(Get(b, f))) =>
                           Has(m, f) /\ Get(m, f) = Get(b, f)

\* the entities a filter pass is to keep: those that match no exclude
\* pattern and, when an include rule is given, match an include pattern
Matches(k, unit, rule) == check_unit(cls, k, unit, rule) = "T"
ExpectedKept(d, exclude, include) ==
  {k \in KeySet(d) :
     /\ ~(Truthy(exclude) /\ Matches(k, Get(d, k), exclude))
     /\ (Truthy(include) => Matches(k, Get(d, k), include))}

\* C2: after apply_pattern(exclude, include) the store holds exactly the
\* entities that match no exclude pattern and, when an include rule is
\* given, match an include pattern (stores whose values the rules can test).
C2_FilterKeepsExactly ==
  (last.op = "apply_pattern" /\ err # "TypeError") =>
    KeySet(dict) = ExpectedKept(last.pre, last.x, last.y)

\* C3: a pattern test succeeds when the pattern matches anywhere inside the
\* text: an entity whose key, or whose tested field value, contains a match
\* of the exclude pattern given is removed, wherever the match starts.
C3_MatchAnywhere ==
  (last.op = "apply_pattern" /\ err = "none" /\ Truthy(last.x) /\ last.y = NoRule) =>
    /\ last.x.t = "str" =>
         \A k \in KeySet(last.pre) : re_search(last.x.v, k) => ~Has(dict, k)
    /\ (last.x.t = "dict" /\ Len(last.x.v) = 1 /\ last.x.v[1][2].t = "str") =>
         \A k \in KeySet(last.pre) :
           LET unit == Get(last.pre, k)
               f == last.x.v[1][1]
           IN (unit.t = "dict" /\ Has(unit.v, f) /\ Get(unit.v, f).t = "str"
               /\ re_search(last.x.v[1][2].v, Get(unit.v, f).v)) => ~Has(dict, k)

\* C5: to_LML called twice in a row writes the same id for every entity
\* both times, and the id written is the one stored in the record's __id.
C5_IdsStable ==
  (last.op = "to_LML" /\ last.prevop = "to_LML") =>
    /\ \A i \in 1..Len(lml.objects) :
         /\ i <= Len(last.prelml.objects)
         /\ lml.objects[i].name = last.prelml.objects[i].name
         /\ lml.objects[i].id = last.prelml.objects[i].id
         /\ Get(Get(dict, lml.objects[i].name).v, K_id) = VStr(lml.objects[i].id)
    /\ err = "none" => Len(lml.objects) = Len(last.prelml.objects)

C5_Witness ==
  /\ last.op = "to_LML" /\ last.prevop = "to_LML"
  /\ err = "none"
  /\ last.x.prefix # last.prevx.prefix
  /\ Len(lml.objects) >= 2
  /\ Len(last.prelml.objects) >= 2

\* C8: apply_pattern with the same exclude rule twice in a row leaves the
\* store as the first application left it.
C8_ExcludeIdempotent ==
  (/\ last.op = "apply_pattern" /\ last.prevop = "apply_pattern"
   /\ last.x = last.prevx
   /\ last.y = NoRule /\ last.prevy = NoRule) =>
    dict = last.pre

C8_Witness ==
  /\ last.op = "apply_pattern" /\ last.prevop = "apply_pattern"
  /\ last.x = last.prevx /\ Truthy(last.x)
  /\ last.y = NoRule /\ last.prevy = NoRule
  /\ err = "none"
  /\ Len(dict) > 0
  /\ Len(dict) < Len(raw)

\* C9: Info.apply_pattern completes without raising for every exclude and
\* include rule given together, and every removal takes place.
C9_ApplyPatternCompletes ==
  (/\ last.op = "apply_pattern" /\ cls = "Info"
   /\ Truthy(last.x) /\ Truthy(last.y)
   /\ err # "TypeError") =>
    /\ err = "none"
    /\ KeySet(dict) = ExpectedKept(last.pre, last.x, last.y)

\* C10: to_LML completes without raising and writes the closing tag for
\* every store of records, also when the records carry no __id, __prefix
\* or __type and prefix and stype are empty.
C10_ToLMLCompletes ==
  (last.op = "to_LML" /\ \A k \in 1..Len(last.pre) : last.pre[k][2].t = "dict") =>
    err = "none" /\ lml.closed

\* every entity of the store d is a record
AllRecords(d) == \A k \in 1..Len(d) : d[k][2].t = "dict"
Internal == {K_type, K_id, K_prefix}

\* C11: after map(mapping) the store has the same entity keys, and every
\* record holds exactly the mapped name, with the old value, of each
\* mapping key the old record had, plus __type, __id and __prefix with
\* their old values when the old record had them; a mapping key that a
\* record lacks adds nothing and raises nothing. (Mappings that give
\* distinct names, none of them an internal key.)
C11_MapRenamesAndKeepsInternal ==
  (last.op = "map" /\ AllRecords(last.pre)) =>
    /\ err = "none"
    /\ Keys(dict) = Keys(last.pre)
    /\ \A k \in 1..Len(dict) :
         LET old == last.pre[k][2].v
             new == dict[k][2].v
             present == {m \in 1..Len(last.x) : Has(old, last.x[m][1])}
         IN /\ dict[k][2].t = "dict"
            /\ KeySet(new) = {last.x[m][2] : m \in present} \cup (Internal \cap KeySet(old))
            /\ \A m \in present : Get(new, last.x[m][2]) = Get(old, last.x[m][1])
            /\ \A f \in Internal \cap KeySet(old) : Get(new, f) = Get(old, f)

\* a record with __id, __type and __prefix is mapped; it has one mapping
\* key and lacks another
C11_Witness ==
  /\ last.op = "map" /\ AllRecords(last.pre) /\ err = "none"
  /\ \E k \in 1..Len(last.pre) :
       LET old == last.pre[k][2].v
       IN /\ Internal \subseteq KeySet(old)
          /\ \E m \in 1..Len(last.x) : Has(old, last.x[m][1])
          /\ \E m \in 1..Len(last.x) : ~Has(old, last.x[m][1])
          /\ KeySet(old) # KeySet(dict[k][2].v)

\* the value a field has after the function names that are defined have
\* been applied to it in the listed order
RECURSIVE AfterDefined(_, _)
AfterDefined(funcnames, val) ==
  IF funcnames = <<>> THEN val
  ELSE AfterDefined(Tail(funcnames),
                    IF Defined(Head(funcnames)) THEN CallFunc(Head(funcnames), val).val
                    ELSE val)

\* C12: in modify a function name that is not defined raises nothing and
\* leaves the field with the value it had just before the name was tried;
\* the remaining names of the field, the remaining fields and the remaining
\* records are processed in the listed order.
C12_UnknownTransformSkipped ==
  (last.op = "modify" /\ AllRecords(last.pre)) =>
    /\ err # "KeyError"
    /\ err = "none" =>
         /\ Keys(dict) = Keys(last.pre)
         /\ \A k \in 1..Len(dict) :
              LET old == last.pre[k][2].v
                  new == dict[k][2].v
              IN /\ Keys(new) = Keys(old)
                 /\ \A f \in KeySet(old) :
                      Get(new, f) =
                        IF Has(last.x, f) THEN AfterDefined(Get(last.x, f), Get(old, f))
                        ELSE Get(old, f)

\* a field whose names hold an undefined name before a defined one has
\* been changed by the defined one, in the last of several records
C12_Witness ==
  /\ last.op = "modify" /\ AllRecords(last.pre) /\ err = "none"
  /\ Len(dict) >= 2
  /\ \E f \in KeySet(dict[Len(dict)][2].v) :
       /\ Has(last.x, f)
       /\ \E i, j \in 1..Len(Get(last.x, f)) :
            i < j /\ ~Defined(Get(last.x, f)[i]) /\ Defined(Get(last.x, f)[j])
       /\ Get(dict[Len(dict)][2].v, f) # Get(last.pre[Len(dict)][2].v, f)

\* ======================================================================
\* files.py: OutputAggregator. A record is a dict of metric name -> value;
\* a value is a string, VInt(n) (a transformed timestamp) or None.
\* An output column's instruction is the record
\*   [aggregate, source, unique, hasStatic, static, wrap, joiner]
\* where aggregate = "" and source = <<>> stand for an absent key and wrap
\* is <<>> (absent) or <<before, after>> for the template "before{}after".
\* ======================================================================
VInt(n) == [t |-> "int", v |-> n]

\* a == b for two values that are strings, ints or None
SameValue(a, b) == a.t = b.t /\ a.v = b.v
In(a, vals) == \E j \in 1..Len(vals) : SameValue(vals[j], a)

\* record.get(key, self.default_map.get(key))
get_value_with_default(default_map, record, key) ==
  IF Has(record, key) THEN Get(record, key) ELSE GetOrNone(default_map, key)

\* float(raw_val): an int, or a string of decimal digits; anything else
\* raises ValueError or TypeError
DigitValue(c) == CHOOSE n \in 0..9 : DigitChar(n) = c
IsDigit(c) == \E n \in 0..9 : DigitChar(n) = c
RECURSIVE DecimalValue(_)
DecimalValue(s) ==
  IF s = <<>> THEN 0 ELSE 10 * DecimalValue(SubSeq(s, 1, Len(s) - 1)) + DigitValue(s[Len(s)])
IsFloat(val) ==
  \/ val.t = "int"
  \/ val.t = "str" /\ val.v # <<>> /\ \A i \in 1..Len(val.v) : IsDigit(val.v[i])
float(val) == IF val.t = "int" THEN val.v ELSE DecimalValue(val.v)

\* str(value) for a string or an int
str(val) == IF val.t = "int" THEN Decimal(val.v) ELSE val.v

RECURSIVE GCD(_, _)
GCD(a, b) == IF b = 0 THEN a ELSE GCD(b, a % b)
\* the quotient num / den of two floats, den > 0, kept exact
Quotient(num, den) ==
  LET g == GCD(num, den) IN [num |-> num \div g, den |-> den \div g]
\* str(x) of a float x = num/den: the decimal text Python prints for it is
\* written "#num/den" here (15.0 is "#15/1"), one text per float
FloatText(q) == <<"#">> \o Decimal(q.num) \o <<"/">> \o Decimal(q.den)

\* wrap.format(text) for the text of a string or an int
Wrapped(wrap, text) == IF wrap = <<>> THEN text ELSE wrap[1] \o text \o wrap[2]

\* grouped_by_index: the index values in order of first appearance
RECURSIVE IndexValues(_, _, _, _)
IndexValues(default_map, records, index_key, acc) ==
  IF records = <<>> THEN acc
  ELSE LET key_val == get_value_with_default(default_map, Head(records), index_key)
       IN IndexValues(default_map, Tail(records), index_key,
                      IF key_val.t = "none" \/ In(key_val, acc) THEN acc
                      ELSE Append(acc, key_val))

GroupRecords(default_map, records, index_key, idx_val) ==
  SelectSeq(records,
            LAMBDA r : SameValue(get_value_with_default(default_map, r, index_key), idx_val))

\* the values of a metric over the records of a group, in order
MetricValues(default_map, group_records, metric) ==
  [i \in 1..Len(group_records) |->
     get_value_with_default(default_map, group_records[i], metric)]

\* set(...) of the values: the distinct ones, in order of first appearance
RECURSIVE Distinct(_, _)
Distinct(vals, acc) ==
  IF vals = <<>> THEN acc
  ELSE Distinct(Tail(vals), IF In(Head(vals), acc) THEN acc ELSE Append(acc, Head(vals)))

NotNone(vals) == SelectSeq(vals, LAMBDA x : x.t # "none")

\* aggregate: count with unique: true
CountUnique_KeepNone(vals) == Len(Distinct(vals, <<>>))
CountUnique(vals) == Len(NotNone(Distinct(vals, <<>>)))

\* `sum(1 for r in group_records)` in its place
CountAll_Every(vals) == Len(vals)
\* aggregate: count
CountAll(vals) == Len(NotNone(vals))

\* the loop that fills numeric_values and counts the non-numeric values
RECURSIVE NumericValues(_, _)
NumericValues(vals, acc) ==
  IF vals = <<>> THEN acc
  ELSE NumericValues(Tail(vals),
         IF Head(vals).t = "none" THEN acc
         ELSE IF IsFloat(Head(vals))
           THEN [acc EXCEPT !.nums = Append(@, float(Head(vals)))]
           ELSE [acc EXCEPT !.non_numeric_count = @ + 1])

RECURSIVE SumSeq(_)
SumSeq(s) == IF s = <<>> THEN 0 ELSE Head(s) + SumSeq(Tail(s))
RECURSIVE MinSeq(_)
MinSeq(s) ==
  IF Len(s) = 1 THEN s[1]
  ELSE LET m == MinSeq(Tail(s)) IN IF Head(s) <= m THEN Head(s) ELSE m
RECURSIVE MaxSeq(_)
MaxSeq(s) ==
  IF Len(s) = 1 THEN s[1]
  ELSE LET m == MaxSeq(Tail(s)) IN IF Head(s) >= m THEN Head(s) ELSE m

\* result_val of min, max and avg over a non-empty numeric_values
AggregateNumeric_CountAll(agg_type, nv) ==
  CASE agg_type = "min" -> Quotient(MinSeq(nv.nums), 1)
    [] agg_type = "max" -> Quotient(MaxSeq(nv.nums), 1)
    [] OTHER -> Quotient(SumSeq(nv.nums), Len(nv.nums) + nv.non_numeric_count)
AggregateNumeric(agg_type, nv) ==
  CASE agg_type = "min" -> Quotient(MinSeq(nv.nums), 1)
    [] agg_type = "max" -> Quotient(MaxSeq(nv.nums), 1)
    [] OTHER -> Quotient(SumSeq(nv.nums), Len(nv.nums))

\* joiner.join(texts)
RECURSIVE Join(_, _)
Join(joiner, texts) ==
  IF texts = <<>> THEN <<>>
  ELSE IF Len(texts) = 1 THEN texts[1]
  ELSE texts[1] \o joiner \o Join(joiner, Tail(texts))

\* the value _output_mode_file gives one column of one group's row:
\* [set |-> whether row[col_name] is assigned, val |-> the value]
FileColumn(cfg, index_key, idx_val, group_records, col_name, ins) ==
  LET vals == MetricValues(cfg.default_map, group_records, ins.source)
      Set(x) == [set |-> TRUE, val |-> x]
  IN IF ins.aggregate # ""
       THEN IF ins.source = <<>> THEN Set(VStr(<<>>))
            ELSE IF ins.aggregate = "count"
              THEN LET n == IF ins.unique THEN CountUnique(vals) ELSE CountAll(vals)
                   IN IF ins.wrap # <<>> THEN Set(VStr(Wrapped(ins.wrap, Decimal(n))))
                      ELSE Set(VInt(n))
            ELSE IF ins.aggregate \in {"min", "max", "avg"}
              THEN LET nv == NumericValues(vals, [nums |-> <<>>, non_numeric_count |-> 0])
                   IN IF nv.nums = <<>> THEN Set(VStr(<<>>))
                      ELSE Set(VStr(Wrapped(ins.wrap,
                                            FloatText(AggregateNumeric(ins.aggregate, nv)))))
            ELSE Set(VStr(<<>>))
     ELSE IF ins.source # <<>>
       THEN IF ins.source = index_key \/ ins.source \in cfg.file_context
              THEN LET value == vals[1]
                   IN IF value.t = "none" THEN Set(VStr(<<>>))
                      ELSE Set(VStr(Wrapped(ins.wrap, str(value))))
              ELSE LET present == NotNone(vals)
                       picked == IF ins.unique THEN Distinct(present, <<>>) ELSE present
                   IN Set(VStr(Join(ins.joiner,
                          [i \in 1..Len(picked) |-> Wrapped(ins.wrap, str(picked[i]))])))
     ELSE IF ins.hasStatic THEN Set(ins.static)
     ELSE IF col_name = index_key THEN Set(idx_val)
     ELSE [set |-> FALSE, val |-> VNone]

RECURSIVE FileRow(_, _, _, _, _, _)
FileRow(cfg, index_key, idx_val, group_records, fields, row) ==
  IF fields = <<>> THEN row
  ELSE LET c == FileColumn(cfg, index_key, idx_val, group_records,
                           fields[1][1], fields[1][2])
       IN FileRow(cfg, index_key, idx_val, group_records, Tail(fields),
                  IF c.set THEN Put(row, fields[1][1], c.val) ELSE row)

output_mode_file(cfg, records, spec) ==
  LET idxs == IndexValues(cfg.default_map, records, spec.index, <<>>)
  IN [g \in 1..Len(idxs) |->
        FileRow(cfg, spec.index, idxs[g],
                GroupRecords(cfg.default_map, records, spec.index, idxs[g]),
                spec.fields, <<>>)]

\* _output_mode_entry: one row per record
RECURSIVE EntryRow(_, _, _, _, _, _)
EntryRow(cfg, index_key, rec, unique_csv_entry_id, fields, row) ==
  IF fields = <<>> THEN row
  ELSE LET col_name == fields[1][1]
           ins == fields[1][2]
           row1 == IF ins.source # <<>>
                     THEN Put(row, col_name,
                              get_value_with_default(cfg.default_map, rec, ins.source))
                   ELSE IF ins.hasStatic THEN Put(row, col_name, ins.static)
                   ELSE IF col_name = index_key
                     THEN Put(row, col_name, VStr(unique_csv_entry_id))
                   ELSE row
       IN EntryRow(cfg, index_key, rec, unique_csv_entry_id, Tail(fields), row1)

K_lml_name == <<"_", "_", "l", "m", "l", "_", "o", "b", "j", "e", "c", "t", "_",
                "n", "a", "m", "e", "_", "_">>

\* f"{value}" of a row value
Text(val) == IF val.t = "none" THEN <<"N", "o", "n", "e">> ELSE str(val)

RECURSIVE output_mode_entry(_, _, _, _, _)
output_mode_entry(cfg, records, spec, isxml, rows) ==
  IF records = <<>> THEN rows
  ELSE LET rec == Head(records)
           idx_val == get_value_with_default(cfg.default_map, rec, spec.index)
           seen == Len(SelectSeq(rows, LAMBDA r : SameValue(Get(r, K_lml_name), idx_val)))
           entry_id == Text(idx_val) \o <<"_">> \o Decimal(seen + 1)
           row == EntryRow(cfg, spec.index, rec, entry_id, spec.fields,
                           << <<K_lml_name, idx_val>> >>)
       IN output_mode_entry(cfg, Tail(records), spec, isxml,
                            IF idx_val.t = "none" /\ ~isxml THEN rows
                            ELSE Append(rows, row))

\* ------------------------------------------------------ _perform_lml_write
K_pstat == <<"p", "s", "t", "a", "t">>
Amp_quot == "&quot;"

IsPstat(item) == Has(item, K_type) /\ Get(item, K_type) = VStr(K_pstat)
\* `not current_id` for item.get("__id")
NoId(item) ==
  \/ ~Has(item, K_id)
  \/ LET id == Get(item, K_id)
     IN \/ id.t = "none"
        \/ id.t = "str" /\ id.v = <<>>
        \/ id.t = "int" /\ id.v = 0

RECURSIVE WriteObjects(_, _, _, _, _, _)
WriteObjects(data_dict, k, i, id_prefix_cfg, default_type_cfg, digits) ==
  IF k > Len(data_dict.d) THEN data_dict
  ELSE LET name == data_dict.d[k][1]
           item == data_dict.d[k][2].v
           gen == NoId(item) /\ ~IsPstat(item)
           item1 == IF gen
                      THEN Put(item, K_id, VStr(id_prefix_cfg \o PadInt(i + 1, digits)))
                      ELSE item
           current_id == IF gen THEN Get(item1, K_id).v
                         ELSE IF NoId(item)
                           THEN <<"e", "r", "r", "o", "r", "_", "i", "d", "_">> \o name
                         ELSE Text(Get(item, K_id))
           obj_type == IF Has(item1, K_type) THEN Text(Get(item1, K_type))
                       ELSE default_type_cfg
       IN WriteObjects(
            [d |-> [data_dict.d EXCEPT ![k] = <<name, VDict(item1)>>],
             objs |-> Append(data_dict.objs,
                             [id |-> current_id, name |-> name, type |-> obj_type])],
            k + 1, IF gen THEN i + 1 ELSE i, id_prefix_cfg, default_type_cfg, digits)

\* the <data> elements of one item: every key but the "__" ones whose value
\* is not None, and the __nelems keys
RECURSIVE WriteData(_)
WriteData(item) ==
  IF item = <<>> THEN <<>>
  ELSE LET data_key == item[1][1]
           data_value == item[1][2]
           line == IF StartsWith(data_key, K_nelems)
                     THEN << <<data_key, Text(data_value)>> >>
                   ELSE IF StartsWith(data_key, <<"_", "_">>) THEN <<>>
                   ELSE IF data_value.t # "none"
                     THEN << <<data_key,
                               IF data_value.t = "str"
                                 THEN Replace(data_value.v, Quote, <<Amp_quot>>)
                                 ELSE Text(data_value)>> >>
                   ELSE <<>>
       IN line \o WriteData(Tail(item))

perform_lml_write(data_dict, id_prefix_cfg, default_type_cfg) ==
  LET n == Len(SelectSeq(data_dict, LAMBDA e : ~IsPstat(e[2].v)))
      digits == IF n > 0 THEN Log10Digits(n) ELSE 1
      st == WriteObjects([d |-> data_dict, objs |-> <<>>], 1, 0,
                         id_prefix_cfg, default_type_cfg, digits)
  IN [data_dict |-> st.d,
      file |-> [objects |-> st.objs,
                infos |-> [k \in 1..Len(st.d) |->
                             [oid |-> IF Has(st.d[k][2].v, K_id)
                                        THEN Text(Get(st.d[k][2].v, K_id))
                                        ELSE <<"error_missing_id_for_">> \o st.d[k][1],
                              name |-> st.d[k][1],
                              data |-> WriteData(st.d[k][2].v)]],
                closed |-> TRUE]]

\* ------------------------------------------------------- _write_lml_output
\* lml_item_data of a row: the output fields the row has with a value
RECURSIVE ItemData(_, _, _)
ItemData(row, fields, acc) ==
  IF fields = <<>> THEN acc
  ELSE LET field_key == fields[1][1]
       IN ItemData(row, Tail(fields),
                   IF Has(row, field_key) /\ Get(row, field_key).t # "none"
                     THEN Put(acc, field_key, Get(row, field_key)) ELSE acc)

\* the loop over data_rows; st is [lml_dict, names (the base name of each
\* row so far, for name_counts)]
RECURSIVE LmlDict(_, _, _, _)
LmlDict(data_rows, i, spec, st) ==
  IF i > Len(data_rows) THEN st.lml_dict
  ELSE LET row_data == data_rows[i]
           base_name_val == IF Has(row_data, K_lml_name) THEN Get(row_data, K_lml_name)
                            ELSE GetOrNone(row_data, spec.index)
           base_name == IF base_name_val.t = "none"
                          THEN <<"u", "n", "n", "a", "m", "e", "d", "_">> \o Decimal(i)
                          ELSE str(base_name_val)
           current_count == Len(SelectSeq(st.names, LAMBDA x : x = base_name))
           object_list_name == IF current_count > 0
                                 THEN base_name \o <<"_">> \o Decimal(current_count + 1)
                                 ELSE base_name
           lml_item_data == Put(ItemData(row_data, spec.fields, <<>>),
                                K_type, VStr(spec.type))
       IN LmlDict(data_rows, i + 1, spec,
                  [lml_dict |-> Put(st.lml_dict, object_list_name, VDict(lml_item_data)),
                   names |-> Append(st.names, base_name)])

K_nelems_of(type) == K_nelems \o <<"_">> \o type

write_lml_output(group_name, data_rows, spec, group_start_time, group_end_time) ==
  LET lml_dict == LmlDict(data_rows, 1, spec, [lml_dict |-> <<>>, names |-> <<>>])
      get_name == <<"g", "e", "t">> \o group_name
      timing_obj_name == IF Has(lml_dict, get_name)
                           THEN get_name \o <<"_">> \o K_pstat ELSE get_name
      timing_values ==
        << <<<<"s", "t", "a", "r", "t", "t", "s">>, VInt(group_start_time)>>,
           <<<<"d", "a", "t", "a", "t", "s">>, VInt(group_start_time)>>,
           <<<<"e", "n", "d", "t", "s">>, VInt(group_end_time)>>,
           <<<<"d", "u", "r", "a", "t", "i", "o", "n">>,
             VInt(group_end_time - group_start_time)>>,
           <<<<"n", "e", "l", "e", "m", "s">>, VInt(Len(data_rows))>>,
           <<K_nelems_of(spec.type), VInt(Len(data_rows))>>,
           <<K_type, VStr(K_pstat)>>,
           <<K_id, VStr(K_pstat \o <<"_">> \o timing_obj_name)>> >>
  IN perform_lml_write(Put(lml_dict, timing_obj_name, VDict(timing_values)),
                       spec.prefix, spec.type)

\* ------------------------------------------------------------ csv output
\* csv.DictWriter(fieldnames=headers, extrasaction='ignore'): one text per
\* header and row, '' for a missing key or None
CsvRows(rows, headers) ==
  [r \in 1..Len(rows) |->
     [h \in 1..Len(headers) |->
        IF Has(rows[r], headers[h]) /\ Get(rows[r], headers[h]).t # "none"
          THEN str(Get(rows[r], headers[h])) ELSE <<>>]]

\* ------------------------------------------------------- generate_outputs
NoOutput == [kind |-> "none", rows |-> <<>>, data_dict |-> <<>>, file |-> NoFile,
             csv |-> <<>>]

\* the body of the loop of generate_outputs for one output specification
GenerateOne(cfg, records, spec, group_start_time, group_end_time) ==
  LET isxml == spec.ext = ".xml"
      rows == IF spec.mode = "file" THEN output_mode_file(cfg, records, spec)
              ELSE output_mode_entry(cfg, records, spec, isxml, <<>>)
      headers == Keys(spec.fields)
  IN IF spec.mode \notin {"file", "entry"} \/ spec.ext \notin {".csv", ".xml"}
       THEN NoOutput
     ELSE IF ~isxml
       THEN [kind |-> "csv", rows |-> rows, data_dict |-> <<>>, file |-> NoFile,
             csv |-> [headers |-> headers, rows |-> CsvRows(rows, headers)]]
     ELSE LET w == write_lml_output(cfg.group_name, rows, spec,
                                    group_start_time, group_end_time)
          IN [kind |-> "xml", rows |-> rows, data_dict |-> w.data_dict,
              file |-> w.file, csv |-> <<>>]

generate_outputs(cfg, records, group_start_time, group_end_time) ==
  IF records = <<>> /\ ~\E i \in 1..Len(cfg.output_specs) : cfg.output_specs[i].ext = ".xml"
    THEN [i \in 1..Len(cfg.output_specs) |-> NoOutput]
    ELSE [i \in 1..Len(cfg.output_specs) |->
            GenerateOne(cfg, records, cfg.output_specs[i], group_start_time, group_end_time)]

\* ------------------------------------------------------------ input sets
M_i == <<"i">>
M_v == <<"v">>
V_A == <<"A">>
V_B == <<"B">>
V_10 == <<"1", "0">>
V_20 == <<"2", "0">>
V_x == <<"x">>

\* the records a parsed file contributes: an index value or none, and a
\* value of the metric v (numeric text, other text, None) or none
FileRecords ==
  {idx \o val :
     idx \in {<< <<M_i, VStr(V_A)>> >>, << <<M_i, VStr(V_B)>> >>},
     val \in {<<>>} \cup {<< <<M_v, x>> >> : x \in {VStr(V_10), VStr(V_20), VStr(V_x), VNone}}}
  \cup {<< <<M_v, VStr(V_x)>> >>}

Instruction ==
  [aggregate |-> "", source |-> <<>>, unique |-> FALSE, hasStatic |-> FALSE,
   static |-> VNone, wrap |-> <<>>, joiner |-> <<>>]
Aggregate(agg_type, source) == [Instruction EXCEPT !.aggregate = agg_type, !.source = source]
Source(source) == [Instruction EXCEPT !.source = source]

FileFields ==
  << <<M_i, Instruction>>,
     <<<<"a", "v", "g">>, Aggregate("avg", M_v)>>,
     <<<<"m", "i", "n">>, [Aggregate("min", M_v) EXCEPT !.wrap = << <<"<">>, <<">">> >>]>>,
     <<<<"m", "a", "x">>, Aggregate("max", M_v)>>,
     <<<<"c", "u">>, [Aggregate("count", M_v) EXCEPT !.unique = TRUE]>>,
     <<<<"c", "n">>, Aggregate("count", M_v)>>,
     <<<<"c", "w">>, [Aggregate("count", M_v) EXCEPT !.wrap = << <<"<">>, <<">">> >>]>>,
     <<<<"m", "e", "d">>, Aggregate("median", M_v)>>,
     <<<<"n", "s">>, Aggregate("avg", <<>>)>> >>
JoinFields ==
  << <<<<"k">>, Source(M_i)>>,
     <<<<"v", "s">>, [Source(M_v) EXCEPT !.unique = TRUE, !.joiner = <<",">>]>>,
     <<<<"a", "l", "l">>, Source(M_v)>>,
     <<<<"s", "t">>, [Instruction EXCEPT !.hasStatic = TRUE, !.static = VStr(<<"s">>)]>> >>
EntryFields ==
  << <<M_i, Instruction>>, <<M_v, Source(M_v)>> >>

OutputSpecs ==
  << [mode |-> "file", ext |-> ".xml", index |-> M_i, prefix |-> S_i, type |-> S_item,
      fields |-> FileFields],
     [mode |-> "file", ext |-> ".csv", index |-> M_i, prefix |-> S_i, type |-> S_item,
      fields |-> JoinFields],
     [mode |-> "file", ext |-> ".xml", index |-> M_i, prefix |-> S_p, type |-> S_node,
      fields |-> JoinFields],
     [mode |-> "entry", ext |-> ".xml", index |-> M_i, prefix |-> S_p, type |-> S_node,
      fields |-> EntryFields],
     [mode |-> "entry", ext |-> ".csv", index |-> M_i, prefix |-> S_i, type |-> S_item,
      fields |-> EntryFields],
     [mode |-> "custom", ext |-> ".xml", index |-> M_i, prefix |-> S_i, type |-> S_item,
      fields |-> EntryFields],
     [mode |-> "file", ext |-> ".txt", index |-> M_i, prefix |-> S_i, type |-> S_item,
      fields |-> EntryFields] >>

Aggregators ==
  {[group_name |-> <<"G">>, default_map |-> dm, file_context |-> {},
    output_specs |-> OutputSpecs] :
     dm \in {<<>>, << <<M_v, VStr(V_20)>> >>}}

\* start and end time of the group's processing
Times == {<<5, 7>>}

\* ------------------------------------------------------- the aggregator
MaxRecords == 3

InitFiles ==
  /\ cls = "OutputAggregator"
  /\ raw = <<>>
  /\ dict = <<>>
  /\ shared = {}
  /\ lml = NoFile
  /\ err = "none"
  /\ last = [op |-> "init", x |-> <<>>, y |-> <<>>, pre |-> <<>>, preraw |-> <<>>,
             prelml |-> NoFile, prevop |-> "init", prevx |-> <<>>, prevy |-> <<>>]
  /\ steps = 0
  /\ aggregator \in Aggregators
  /\ all_records = <<>>
  /\ outputs = <<>>
  /\ parser = <<>>
  /\ file = [name |-> <<>>, lines |-> <<>>]
  /\ raw_records = <<>>
  /\ final_records = <<>>
  /\ stage = "idle"
  /\ tracker = NoTracker
  /\ settled = {}
  /\ lastts = 0
  /\ plot = NoPool

\* add_records(records) with the records of one parsed file
AddRecords ==
  \E rec \in FileRecords :
    /\ outputs = <<>>
    /\ Len(all_records) < MaxRecords
    /\ all_records' = Append(all_records, rec)
    /\ UNCHANGED <<cls, raw, dict, shared, lml, err, last, steps, aggregator, outputs,
                   parser, file, raw_records, final_records, stage, mainVars>>

\* generate_outputs(group_start_time), once per group
GenerateOutputs ==
  \E t \in Times :
    /\ cls = "OutputAggregator"
    /\ outputs = <<>>
    /\ outputs' = generate_outputs(aggregator, all_records, t[1], t[2])
    /\ UNCHANGED <<cls, raw, dict, shared, lml, err, last, steps, aggregator, all_records,
                   parser, file, raw_records, final_records, stage, mainVars>>

NextFiles == AddRecords \/ GenerateOutputs

SpecFiles == InitFiles /\ [][NextFiles]_vars

\* ================================================= claims on the aggregator
\* the output of specification k is an LML file
IsLml(k) == outputs[k].kind = "xml"
\* the output of specification k holds one row per index value
IsFileMode(k) == outputs[k].kind # "none" /\ aggregator.output_specs[k].mode = "file"
\* the index value of each row of a file-mode output
RowIndex(k) ==
  IndexValues(aggregator.default_map, all_records, aggregator.output_specs[k].index, <<>>)
\* the source values of the group of row g, one per record of the group
SourceValues(k, g, source) ==
  LET index_key == aggregator.output_specs[k].index
      vof(rec, key) == get_value_with_default(aggregator.default_map, rec, key)
      group == SelectSeq(all_records,
                         LAMBDA rec : SameValue(vof(rec, index_key), RowIndex(k)[g]))
  IN [n \in 1..Len(group) |-> vof(group[n], source)]
\* the columns of output k whose instruction satisfies P
Columns(k, P(_)) ==
  {c \in 1..Len(aggregator.output_specs[k].fields) :
     P(aggregator.output_specs[k].fields[c][2])}
Cell(k, g, c) == Get(outputs[k].rows[g], aggregator.output_specs[k].fields[c][1])

\* C4: in the LML file an empty-string field that is not metadata gives no
\* <data> element, and a non-empty string field gives exactly one <data>
\* element with that key and that value.
C4_EmptyStringsGiveNoData ==
  \A k \in 1..Len(outputs) :
    IsLml(k) =>
      \A n \in 1..Len(outputs[k].data_dict) :
        LET item == outputs[k].data_dict[n][2].v
            data == outputs[k].file.infos[n].data
        IN \A f \in 1..Len(item) :
             LET key == item[f][1]
                 val == item[f][2]
                 written == {d \in 1..Len(data) : data[d][1] = key}
             IN (val.t = "str" /\ ~StartsWith(key, <<"_", "_">>)) =>
                  IF val.v = <<>> THEN written = {}
                  ELSE /\ Cardinality(written) = 1
                       /\ \A d \in written : data[d][2] = val.v

IsAvg(ins) == ins.aggregate = "avg" /\ ins.source # <<>> /\ ins.wrap = <<>>
Numeric(vals) == SelectSeq(vals, LAMBDA x : x.t # "none" /\ IsFloat(x))
RECURSIVE Total(_)
Total(vals) == IF vals = <<>> THEN 0 ELSE float(Head(vals)) + Total(Tail(vals))

\* C6: in a file-mode output a column with aggregate: avg holds, for each
\* group with a numeric source value, the sum of the group's numeric source
\* values divided by the number of those values; values that are not
\* numeric are not counted.
C6_AvgOverNumericValues ==
  \A k \in 1..Len(outputs) :
    IsFileMode(k) =>
      \A g \in 1..Len(outputs[k].rows), c \in Columns(k, IsAvg) :
        LET nums == Numeric(SourceValues(k, g, aggregator.output_specs[k].fields[c][2].source))
        IN nums # <<>> =>
             \E num \in 0..Total(nums), den \in 1..Len(nums) :
               /\ num * Len(nums) = den * Total(nums)
               /\ Cell(k, g, c) = VStr(FloatText([num |-> num, den |-> den]))

\* a group holds 10, 20 and x and its average is 15.0
C6_Witness ==
  \E k \in 1..Len(outputs) :
    /\ IsFileMode(k)
    /\ \E g \in 1..Len(outputs[k].rows), c \in Columns(k, IsAvg) :
         LET vals == SourceValues(k, g, M_v)
         IN /\ \A x \in {V_10, V_20, V_x} : In(VStr(x), vals)
            /\ Len(vals) = 3
            /\ Cell(k, g, c) = VStr(<<"#", "1", "5", "/", "1">>)

IsCountUnique(ins) ==
  ins.aggregate = "count" /\ ins.source # <<>> /\ ins.unique /\ ins.wrap = <<>>
\* the positions of the first occurrence of each value that is not None
FirstOccurrences(vals) ==
  {n \in 1..Len(vals) :
     vals[n].t # "none" /\ \A m \in 1..(n - 1) : ~SameValue(vals[m], vals[n])}

\* C7: in a file-mode output a column with aggregate: count and unique: true
\* holds, for each group, the number of distinct source values of the group
\* that are not None.
C7_CountUniqueIsDistinctNonNull ==
  \A k \in 1..Len(outputs) :
    IsFileMode(k) =>
      \A g \in 1..Len(outputs[k].rows), c \in Columns(k, IsCountUnique) :
        Cell(k, g, c) =
          VInt(Cardinality(FirstOccurrences(
                 SourceValues(k, g, aggregator.output_specs[k].fields[c][2].source))))

\* a group holds a value twice and a None, and its unique count is 1
C7_Witness ==
  \E k \in 1..Len(outputs) :
    /\ IsFileMode(k)
    /\ \E g \in 1..Len(outputs[k].rows), c \in Columns(k, IsCountUnique) :
         LET vals == SourceValues(k, g, M_v)
         IN /\ Len(vals) = 3
            /\ In(VNone, vals)
            /\ Cardinality(FirstOccurrences(vals)) = 1
            /\ Cell(k, g, c) = VInt(1)

\* ======================================================================
\* files.py: FileParser. A metric definition is the record
\*   [name, regex, scope, from, apply, exclude, include]
\* of a simple (named) metric whose regex is `literal(.*)`: regex holds the
\* literal and group(1) is the rest of the text after its leftmost match.
\* apply is a dict metric name -> function name; exclude and include are
\* [given |-> whether the key is set, pats |-> the patterns].
\* ======================================================================
\* compiled_rx.search(text): the position of the leftmost match, 0 for none
SearchAt(literal, text) ==
  IF IsSubstr(literal, text)
    THEN CHOOSE k \in 1..(Len(text) + 1) :
           /\ StartsWith(Suffix(text, k), literal)
           /\ \A j \in 1..(k - 1) : ~StartsWith(Suffix(text, j), literal)
    ELSE 0

\* _extract_metric_values for a simple metric: {name: match_obj.group(1)}
extract_metric_values(m_def, text) ==
  << <<m_def.name, VStr(Suffix(text, SearchAt(m_def.regex, text) + Len(m_def.regex)))>> >>

\* the loop over the metrics read from the file name
RECURSIVE ParseFilename(_, _, _)
ParseFilename(metrics, filename, file_context_data) ==
  IF metrics = <<>> THEN file_context_data
  ELSE LET m_def == Head(metrics)
       IN ParseFilename(Tail(metrics), filename,
            IF /\ m_def.from = "filename"
               /\ SearchAt(m_def.regex, filename) > 0
               /\ m_def.scope = "file_context"
              THEN Update(file_context_data, extract_metric_values(m_def, filename))
              ELSE file_context_data)

\* the loop over the metrics for one line; st is [ctx, line]
RECURSIVE ParseLine(_, _, _)
ParseLine(metrics, text, st) ==
  IF metrics = <<>> THEN st
  ELSE LET m_def == Head(metrics)
       IN ParseLine(Tail(metrics), text,
            IF m_def.from = "filename" \/ SearchAt(m_def.regex, text) = 0 THEN st
            ELSE IF m_def.scope = "file_context"
              THEN [st EXCEPT !.ctx = Update(@, extract_metric_values(m_def, text))]
              ELSE [st EXCEPT !.line = Update(@, extract_metric_values(m_def, text))])

\* the loop over the lines of the file: a line with line metrics gives a
\* record, a copy of the file context as it is then, updated with them
RECURSIVE ParseLines(_, _, _, _)
ParseLines(metrics, lines, file_context_data, processed_records) ==
  IF lines = <<>> THEN processed_records
  ELSE IF Head(lines) = <<>>
    THEN ParseLines(metrics, Tail(lines), file_context_data, processed_records)
  ELSE LET st == ParseLine(metrics, Head(lines), [ctx |-> file_context_data, line |-> <<>>])
       IN ParseLines(metrics, Tail(lines), st.ctx,
                     IF st.line # <<>> THEN Append(processed_records, Update(st.ctx, st.line))
                     ELSE processed_records)

parse_file_content(metrics, filename, lines) ==
  IF metrics = <<>> THEN <<>>
  ELSE ParseLines(metrics, lines, ParseFilename(metrics, filename, <<>>), <<>>)

\* to_timestamp(val): the epoch seconds of an ISO date text, None for
\* None and for every other value; the texts here hold one date
DateText == <<"2024-01-01T00:00:00Z">>
to_timestamp(val) ==
  IF val.t = "str" /\ val.v = DateText THEN VInt(1704067200) ELSE VNone

\* globals().get(transform_func_name) is callable
Callable(transform_func_name) == transform_func_name = "to_timestamp"

\* _apply_filter_pattern(metric_name, value_to_filter, rules, rule_type)
apply_filter_pattern(value_to_filter, rules, rule_type) ==
  LET value_str == Text(value_to_filter)
      match_found == \E p \in 1..Len(rules.pats) : re_search(rules.pats[p], value_str)
  IN IF ~rules.given THEN TRUE
     ELSE IF rules.pats = <<>> THEN rule_type # "include"
     ELSE IF rule_type = "exclude" THEN ~match_found
     ELSE match_found

\* the transformations of one record: [rec, keep]
RECURSIVE Transform(_, _)
Transform(metrics, rec) ==
  IF metrics = <<>> THEN [rec |-> rec, keep |-> TRUE]
  ELSE LET m_def == Head(metrics)
           metric_key == m_def.name
           transform_func_name == IF Has(m_def.apply, metric_key)
                                    THEN Get(m_def.apply, metric_key) ELSE ""
       IN IF m_def.apply = <<>> \/ ~Has(rec, metric_key) \/ transform_func_name = ""
            THEN Transform(Tail(metrics), rec)
          ELSE IF Callable(transform_func_name)
            THEN LET original_value == Get(rec, metric_key)
                     transformed_value == to_timestamp(original_value)
                 IN IF transformed_value.t = "none" /\ original_value.t # "none"
                      THEN [rec |-> rec, keep |-> FALSE]
                      ELSE Transform(Tail(metrics), Put(rec, metric_key, transformed_value))
          ELSE [rec |-> rec, keep |-> FALSE]

\* the filters of one record: whether it is kept
RECURSIVE Filter(_, _)
Filter(metrics, rec) ==
  IF metrics = <<>> THEN TRUE
  ELSE LET m_def == Head(metrics)
       IN IF ~Has(rec, m_def.name) THEN Filter(Tail(metrics), rec)
          ELSE /\ apply_filter_pattern(Get(rec, m_def.name), m_def.exclude, "exclude")
               /\ apply_filter_pattern(Get(rec, m_def.name), m_def.include, "include")
               /\ Filter(Tail(metrics), rec)

RECURSIVE process_transformed_records(_, _)
process_transformed_records(metrics, raw_recs) ==
  IF raw_recs = <<>> THEN <<>>
  ELSE LET t == Transform(metrics, Head(raw_recs))
           rest == process_transformed_records(metrics, Tail(raw_recs))
       IN IF t.keep /\ Filter(metrics, t.rec) /\ t.rec # <<>> THEN <<t.rec>> \o rest
          ELSE rest

\* ------------------------------------------------ the parser's inputs
MaxLines == 3

NoRules == [given |-> FALSE, pats |-> <<>>]
Rules(pats) == [given |-> TRUE, pats |-> pats]
M_c == <<"c">>
M_j == <<"j">>

\* a metric read from the file name, one from a line as file context, and
\* the line metric v with its transformation and filters
Metric_j == [name |-> M_j, regex |-> <<"j">>, scope |-> "file_context", from |-> "filename",
             apply |-> <<>>, exclude |-> NoRules, include |-> NoRules]
Metric_c == [name |-> M_c, regex |-> <<"c", "=">>, scope |-> "file_context", from |-> "content",
             apply |-> <<>>, exclude |-> NoRules, include |-> NoRules]
Metric_v(apply, exclude, include) ==
  [name |-> M_v, regex |-> <<"v", "=">>, scope |-> "line", from |-> "content",
   apply |-> apply, exclude |-> exclude, include |-> include]

Applies == { <<>>, << <<M_v, "to_timestamp">> >>, << <<M_v, "nofunc">> >> }
Filters == { <<NoRules, NoRules>>, <<Rules(<< <<"x">> >>), NoRules>>,
             <<NoRules, Rules(<< <<"1">> >>)>> }
Parsers == { <<Metric_j, Metric_c, Metric_v(a, f[1], f[2])>> : a \in Applies, f \in Filters }

FileName == <<"j", "7">>
Lines == { <<>>, <<"c", "=", "A">>, <<"c", "=", "B">>,
           <<"v", "=", "1", "0">>, <<"v", "=", "x">>, <<"v", "=">> \o DateText }
Files == UNION { [1..n -> Lines] : n \in 1..MaxLines }

\* ------------------------------------------------ main's loop over a file
InitParser ==
  /\ cls = "FileParser"
  /\ raw = <<>>
  /\ dict = <<>>
  /\ shared = {}
  /\ lml = NoFile
  /\ err = "none"
  /\ last = [op |-> "init", x |-> <<>>, y |-> <<>>, pre |-> <<>>, preraw |-> <<>>,
             prelml |-> NoFile, prevop |-> "init", prevx |-> <<>>, prevy |-> <<>>]
  /\ steps = 0
  /\ aggregator = NoConfig
  /\ all_records = <<>>
  /\ outputs = <<>>
  /\ parser \in Parsers
  /\ file = [name |-> <<>>, lines |-> <<>>]
  /\ raw_records = <<>>
  /\ final_records = <<>>
  /\ stage = "idle"
  /\ tracker = NoTracker
  /\ settled = {}
  /\ lastts = 0
  /\ plot = NoPool

\* raw_records_from_file = parser.parse_file_content(f, file_path)
ParseFileContent ==
  \E lines \in Files :
    /\ stage = "idle"
    /\ file' = [name |-> FileName, lines |-> lines]
    /\ raw_records' = parse_file_content(parser, FileName, lines)
    /\ stage' = "parsed"
    /\ UNCHANGED <<cls, raw, dict, shared, lml, err, last, steps, aggregatorVars,
                   parser, final_records, mainVars>>

\* final_records_for_file = parser.process_transformed_records(raw_records_from_file)
ProcessTransformedRecords ==
  /\ stage = "parsed"
  /\ raw_records # <<>>
  /\ final_records' = process_transformed_records(parser, raw_records)
  /\ stage' = "processed"
  /\ UNCHANGED <<cls, raw, dict, shared, lml, err, last, steps, aggregatorVars,
                 parser, file, raw_records, mainVars>>

NextParser == ParseFileContent \/ ProcessTransformedRecords

SpecParser == InitParser /\ [][NextParser]_vars

\* ================================================= claims on the parser
\* the metric whose transformation name is not a function of the module
UnknownTransform(m_def) ==
  /\ Has(m_def.apply, m_def.name)
  /\ Get(m_def.apply, m_def.name) # ""
  /\ ~Callable(Get(m_def.apply, m_def.name))
NoFilter(m_def) == ~m_def.exclude.given /\ ~m_def.include.given

\* C13: a record with a field whose configured transformation name is unknown
\* stays in the records process_transformed_records returns, with that field
\* as it was; it is not dropped, and the other records are processed. Stated
\* for the configurations without filters whose only transformation is the
\* unknown one: the returned records are then the records given.
C13_UnknownTransformKeepsRecord ==
  ( /\ stage = "processed"
    /\ \A k \in 1..Len(parser) :
         /\ NoFilter(parser[k])
         /\ parser[k].apply # <<>> => UnknownTransform(parser[k]) )
  => final_records = raw_records

\* where C13's case happens: a record with the field was given
C13_Case ==
  /\ stage = "processed"
  /\ \E k \in 1..Len(parser) : UnknownTransform(parser[k]) /\ NoFilter(parser[k])
  /\ \E r \in 1..Len(raw_records) : Has(raw_records[r], M_v)

\* the values a file-context metric's regex matches on the lines of the file
ContextValues(m_def) ==
  { Suffix(file.lines[n], SearchAt(m_def.regex, file.lines[n]) + Len(m_def.regex)) :
      n \in { n \in 1..Len(file.lines) : SearchAt(m_def.regex, file.lines[n]) > 0 } }

\* C20: every record parse_file_content produces carries the values of the
\* file's file_context metrics, a value matched on a later line than the
\* record's own included: a file-context metric that matches a line of the
\* file is a field of every record, with a value matched in the file.
C20_RecordsCarryFileContext ==
  stage # "idle" =>
    \A r \in 1..Len(raw_records) : \A k \in 1..Len(parser) :
      ( /\ parser[k].scope = "file_context"
        /\ parser[k].from = "content"
        /\ ContextValues(parser[k]) # {} )
      => /\ Has(raw_records[r], parser[k].name)
         /\ Get(raw_records[r], parser[k].name).v \in ContextValues(parser[k])

\* ======================================================================
\* The writers on stores of up to MaxEntities entities
\* ======================================================================
MaxEntities == 11

\* the key of the k-th entity
EntityKey(k) == <<"e">> \o Decimal(k)
\* a store of n entities as parse leaves it, the first m with an __id of
\* their own
Entities(n, m) ==
  [k \in 1..n |->
     <<EntityKey(k),
       VDict(<< <<F_f, VStr(V_10)>>, <<K_prefix, VStr(S_i)>>, <<K_type, VStr(S_item)>> >>
             \o IF k <= m THEN << <<K_id, VStr(<<"x">> \o Decimal(k))>> >> ELSE <<>>)>>]

\* an aggregator whose one output is the entry-mode LML file
EntryAggregator ==
  [group_name |-> <<"G">>, default_map |-> <<>>, file_context |-> {},
   output_specs |-> <<OutputSpecs[4]>>]

InitIds ==
  \E n \in 0..MaxEntities : \E m \in {0, 1} :
    /\ cls \in {"Info", "BenchRepo", "OutputAggregator"}
    /\ raw = <<>>
    /\ dict = IF cls = "OutputAggregator" THEN <<>> ELSE Entities(n, m)
    /\ shared = {}
    /\ lml = NoFile
    /\ err = "none"
    /\ last = [op |-> "init", x |-> <<>>, y |-> <<>>, pre |-> <<>>, preraw |-> <<>>,
               prelml |-> NoFile, prevop |-> "init", prevx |-> <<>>, prevy |-> <<>>]
    /\ steps = 0
    /\ aggregator = IF cls = "OutputAggregator" THEN EntryAggregator ELSE NoConfig
    /\ all_records = IF cls = "OutputAggregator"
                       THEN [k \in 1..n |-> IF k <= m THEN << <<M_i, VStr(V_B)>> >>
                                            ELSE << <<M_i, VStr(V_A)>>, <<M_v, VStr(V_10)>> >>]
                       ELSE <<>>
    /\ outputs = <<>>
    /\ parser = <<>>
    /\ file = [name |-> <<>>, lines |-> <<>>]
    /\ raw_records = <<>>
    /\ final_records = <<>>
    /\ stage = "idle"
    /\ tracker = NoTracker
    /\ settled = {}
    /\ lastts = 0
    /\ plot = NoPool

NextIds == ToLML \/ GenerateOutputs

SpecIds == InitIds /\ [][NextIds]_vars

\* ================================================= claims on the ids
\* the number of decimal digits of n: int(log10(n)) + 1, and 1 for 0
Width(n) == IF n = 0 THEN 1 ELSE CHOOSE w \in 1..(n + 1) : 10^(w - 1) <= n /\ n < 10^w
\* ceil(log10(n)) + 1, and 1 for 0
CeilWidth(n) ==
  IF n = 0 THEN 1 ELSE 1 + CHOOSE e \in 0..n : 10^e >= n /\ \A j \in 0..(e - 1) : 10^j < n

\* text is a number zero-padded to w digits: at least w digits, and no
\* leading zero beyond them
Padded(text, w) ==
  /\ Len(text) >= w
  /\ \A p \in 1..Len(text) : IsDigit(text[p])
  /\ Len(text) > w => text[1] # "0"

\* the sequence numbers of the ids the last to_LML generated, and those of
\* the ids in the LML file generate_outputs wrote
GeneratedByToLML ==
  { Suffix(Get(dict[k][2].v, K_id).v,
           1 + Len(IF last.x.prefix # <<>> THEN last.x.prefix
                   ELSE Get(dict[k][2].v, K_prefix).v)) :
      k \in { k \in 1..Len(dict) : /\ k <= Len(last.pre)
                                   /\ ~Has(last.pre[k][2].v, K_id)
                                   /\ Has(dict[k][2].v, K_id) } }
GeneratedByWrite(out) ==
  { Suffix(Get(out.data_dict[k][2].v, K_id).v, 1 + Len(aggregator.output_specs[1].prefix)) :
      k \in { k \in 1..Len(out.data_dict) : ~IsPstat(out.data_dict[k][2].v) } }
NonPstat(out) == Cardinality({ k \in 1..Len(out.data_dict) : ~IsPstat(out.data_dict[k][2].v) })

\* C14 as stated: the generated sequence numbers are zero-padded to
\* ceil(log10(N)) + 1 digits for a store of N entities, 1 digit when N is 0.
C14_PaddedToCeilLog10 ==
  /\ last.op = "to_LML" => \A t \in GeneratedByToLML : Padded(t, CeilWidth(Len(last.pre)))
  /\ \A o \in 1..Len(outputs) :
       outputs[o].kind = "xml" =>
         \A t \in GeneratedByWrite(outputs[o]) : Padded(t, CeilWidth(NonPstat(outputs[o])))

\* C14 amended: the generated sequence numbers are zero-padded to
\* int(log10(N)) + 1 digits, the number of decimal digits of N, where N is
\* the number of entities of the store (for _perform_lml_write, of those
\* whose __type is not pstat), and to 1 digit when N is 0.
C14_PaddedToDigitsOfN ==
  /\ last.op = "to_LML" => \A t \in GeneratedByToLML : Padded(t, Width(Len(last.pre)))
  /\ \A o \in 1..Len(outputs) :
       outputs[o].kind = "xml" =>
         \A t \in GeneratedByWrite(outputs[o]) : Padded(t, Width(NonPstat(outputs[o])))

\* a store of ten entities or more whose sequence numbers got a leading zero
C14_Witness ==
  \/ /\ last.op = "to_LML"
     /\ Len(last.pre) >= 10
     /\ \E t \in GeneratedByToLML : Len(t) = 2 /\ t[1] = "0"
  \/ \E o \in 1..Len(outputs) :
       /\ outputs[o].kind = "xml"
       /\ NonPstat(outputs[o]) >= 10
       /\ \E t \in GeneratedByWrite(outputs[o]) : Len(t) = 2 /\ t[1] = "0"

\* ================================================= claims on the LML file
\* a field that is not metadata: its key does not start with "__"
IsDataField(key) == ~StartsWith(key, <<"_", "_">>)

\* C15: in the file Info.to_LML and BenchRepo.to_LML write, a non-metadata
\* field whose value is None gives no <data> element.
C15_NoneGivesNoData ==
  (last.op = "to_LML" /\ lml.closed) =>
    \A k \in 1..Len(dict) : \A f \in 1..Len(dict[k][2].v) :
      LET key == dict[k][2].v[f][1]
          value == dict[k][2].v[f][2]
      IN (IsDataField(key) /\ value.t = "none") =>
           ~\E n \in 1..Len(lml.infos[k].data) : lml.infos[k].data[n][1] = key

\* C16: every <object> to_LML writes has the type of its record's __type
\* when the record has one, and the stype argument only when it has none.
C16_TypeIsRecordsType ==
  last.op \in {"to_LML", "bench"} =>
    \A n \in 1..Len(lml.objects) :
      LET rec == dict[n][2].v
      IN /\ lml.objects[n].name = dict[n][1]
         /\ lml.objects[n].type = IF Has(rec, K_type) THEN Fmt(Get(rec, K_type))
                                  ELSE last.x.stype

\* ======================================================================
\* prometheus.py: Info.query. A metric of the configuration is the record
\*   [name, data, use_factor, factor, has_min, min_val, has_max, max_val,
\*    has_default, default]
\* with data the instances the server (or the cache) gave for it, each
\* [pid, value, ts], of a Prometheus response without cpu or device labels;
\* data is empty when the query was skipped or returned nothing. A float
\* here has an integral value.
\* ======================================================================
VFloat(n) == [t |-> "float", v |-> n]
K_ts == <<"t", "s">>
K_idfield == <<"i", "d">>

\* the loop over the instances of one metric
RECURSIVE QueryInstances(_, _, _, _, _)
QueryInstances(rawd, metric, prefix, start_ts, data) ==
  IF data = <<>> THEN rawd
  ELSE LET instance == Head(data)
           id == instance.pid
           v0 == instance.value
           v1 == IF metric.use_factor THEN v0 * metric.factor ELSE v0
           v2 == IF metric.has_min /\ v1 < metric.min_val THEN metric.min_val ELSE v1
           value == IF metric.has_max /\ v2 > metric.max_val THEN metric.max_val ELSE v2
           ts_key == IF prefix # <<>> THEN prefix \o <<"_">> \o K_ts ELSE K_ts
           name_ts_key == IF prefix # <<>> THEN metric.name \o <<"_">> \o K_ts ELSE K_ts
           id_data == IF Has(rawd, id) THEN Get(rawd, id).v ELSE <<>>
       IN QueryInstances(
            Put(rawd, id,
                VDict(Put(Put(Put(Put(id_data, metric.name, VFloat(value)),
                                  ts_key, VFloat(start_ts)),
                              name_ts_key, VFloat(instance.ts)),
                          K_idfield, VStr(id)))),
            metric, prefix, start_ts, Tail(data))

\* the loop over the metrics
RECURSIVE QueryMetrics(_, _, _, _)
QueryMetrics(rawd, metrics, prefix, start_ts) ==
  IF metrics = <<>> THEN rawd
  ELSE QueryMetrics(QueryInstances(rawd, Head(metrics), prefix, start_ts, Head(metrics).data),
                    Tail(metrics), prefix, start_ts)

\* `if not self._raw[instance].get(name)` in its place
RECURSIVE DefaultsItem_Falsy(_, _)
DefaultsItem_Falsy(item, metrics) ==
  IF metrics = <<>> THEN item
  ELSE LET metric == Head(metrics)
           empty == ~Has(item, metric.name) \/ Get(item, metric.name) = VStr(<<>>)
       IN DefaultsItem_Falsy(IF empty /\ metric.has_default
                               THEN Put(item, metric.name, metric.default) ELSE item,
                             Tail(metrics))
\* the default values of the metrics the entity has no value of
RECURSIVE DefaultsItem(_, _)
DefaultsItem(item, metrics) ==
  IF metrics = <<>> THEN item
  ELSE LET metric == Head(metrics)
       IN DefaultsItem(IF ~Has(item, metric.name) /\ metric.has_default
                         THEN Put(item, metric.name, metric.default) ELSE item,
                       Tail(metrics))

\* the closing loop over self._raw: __prefix, __type and the defaults
QueryInternal(rawd, metrics, prefix, stype) ==
  [k \in 1..Len(rawd) |->
     LET r0 == rawd[k][2].v
         r1 == IF prefix # <<>> THEN Put(r0, K_prefix, VStr(prefix)) ELSE r0
         r2 == IF stype # <<>> THEN Put(r1, K_type, VStr(stype)) ELSE r1
     IN <<rawd[k][1], VDict(DefaultsItem(r2, metrics))>>]

\* query(metrics, prefix, stype, cached_queries, start_ts): self._raw after it
query(rawd, metrics, prefix, stype, start_ts) ==
  QueryInternal(QueryMetrics(rawd, metrics, prefix, start_ts), metrics, prefix, stype)

\* ------------------------------------------------ the inputs of query
Metric(name, data) ==
  [name |-> name, data |-> data, use_factor |-> FALSE, factor |-> 1,
   has_min |-> FALSE, min_val |-> 0, has_max |-> FALSE, max_val |-> 0,
   has_default |-> FALSE, default |-> VNone]
WithDefault(metric, default) == [metric EXCEPT !.has_default = TRUE, !.default = default]
Instance(pid, value) == [pid |-> pid, value |-> value, ts |-> 3]
V_d == <<"d">>

QueryInputs ==
  {[metrics |-> << WithDefault(Metric(F_f, <<Instance(E_n0, 5)>>), VStr(<<"0">>)),
                   WithDefault(Metric(F_g, <<>>), VStr(V_d)) >>,
    prefix |-> S_i, stype |-> S_item, start_ts |-> 4],
   [metrics |-> << [Metric(F_h, <<Instance(E_x0, 7), Instance(E_n1, 9)>>)
                      EXCEPT !.has_min = TRUE, !.min_val = 8],
                   WithDefault(Metric(F_f, <<>>), VNone),
                   Metric(F_g, <<>>) >>,
    prefix |-> <<>>, stype |-> <<>>, start_ts |-> 4],
   [metrics |-> << WithDefault([Metric(F_g, <<Instance(E_n1, 6)>>)
                                  EXCEPT !.use_factor = TRUE, !.factor = 2,
                                         !.has_max = TRUE, !.max_val = 10], VStr(V_d)),
                   WithDefault(Metric(F_h, <<>>), VStr(<<>>)) >>,
    prefix |-> S_p, stype |-> <<>>, start_ts |-> 4]}

\* the records and default maps _get_value_with_default is called with
LookupInputs ==
  {[record |-> r, key |-> M_v, default_map |-> dm] :
     r \in {<<>>, << <<M_i, VStr(V_A)>> >>, << <<M_v, VStr(V_10)>> >>,
            << <<M_v, VStr(<<>>)>> >>, << <<M_v, VNone>> >>},
     dm \in {<<>>, << <<M_v, VStr(V_20)>> >>}}

\* ------------------------------------------------ parse, query and lookup
InitQuery == Init /\ cls = "Info"

Query ==
  \E in \in QueryInputs :
    /\ cls = "Info"
    /\ CanCall
    /\ raw' = query(raw, in.metrics, in.prefix, in.stype, in.start_ts)
    /\ dict' = Update(dict, raw')
    /\ shared' = KeySet(raw')
    /\ last' = Call("query", in, <<>>)
    /\ steps' = steps + 1
    /\ UNCHANGED <<cls, lml, err, aggregatorVars, parserVars, mainVars>>

\* value = self._get_value_with_default(record, key)
GetValueWithDefault ==
  \E in \in LookupInputs :
    /\ CanCall
    /\ last' = Call("get_value_with_default", in,
                    get_value_with_default(in.default_map, in.record, in.key))
    /\ steps' = steps + 1
    /\ UNCHANGED <<cls, raw, dict, shared, lml, err, aggregatorVars, parserVars, mainVars>>

NextQuery == Parse \/ Query \/ GetValueWithDefault

SpecQuery == InitQuery /\ [][NextQuery]_vars

\* ================================================= claims on the defaults
\* the metrics of the last query with the given name that delivered a value
\* for the entity
Delivered(e, name) ==
  \E m \in 1..Len(last.x.metrics) :
    /\ last.x.metrics[m].name = name
    /\ \E n \in 1..Len(last.x.metrics[m].data) : last.x.metrics[m].data[n].pid = e

\* C17: after query ran all metrics, an entity holds a metric's default only
\* if it had no value for the metric: a value it had before, the empty
\* string included, or one the server delivered, is kept, and without any the
\* entity holds the default. _get_value_with_default returns the default only
\* when the record lacks the key.
C17_DefaultOnlyWhenMissing ==
  /\ last.op = "query" =>
       \A k \in 1..Len(raw) : \A m \in 1..Len(last.x.metrics) :
         LET e == raw[k][1]
             metric == last.x.metrics[m]
             now == raw[k][2].v
         IN metric.has_default =>
              /\ Has(now, metric.name)
              /\ IF Delivered(e, metric.name)
                   THEN Get(now, metric.name).t = "float"
                 ELSE IF Has(last.preraw, e) /\ Has(Get(last.preraw, e).v, metric.name)
                   THEN SameValue(Get(now, metric.name), Get(Get(last.preraw, e).v, metric.name))
                 ELSE SameValue(Get(now, metric.name), metric.default)
  /\ last.op = "get_value_with_default" =>
       IF Has(last.x.record, last.x.key)
         THEN SameValue(last.y, Get(last.x.record, last.x.key))
         ELSE SameValue(last.y, GetOrNone(last.x.default_map, last.x.key))

\* an entity parse left with the empty string for g keeps it through a query
\* whose metric g has a default, and another entity gets that default
C17_Witness ==
  /\ last.op = "query"
  /\ \E k \in 1..Len(raw) : \E m \in 1..Len(last.x.metrics) :
       LET metric == last.x.metrics[m]
       IN /\ metric.has_default
          /\ Has(last.preraw, raw[k][1])
          /\ Has(Get(last.preraw, raw[k][1]).v, metric.name)
          /\ Get(Get(last.preraw, raw[k][1]).v, metric.name) = VStr(<<>>)
          /\ Get(raw[k][2].v, metric.name) = VStr(<<>>)
          /\ \E j \in 1..Len(raw) : SameValue(Get(raw[j][2].v, metric.name), metric.default)

\* ======================================================================
\* gitlab.py: the filters of BenchRepo.get_metrics. The configuration of a
\* metric is [has_exclude, exclude, has_include, include]; current_data is
\* the list of the records read from one source.
\* ======================================================================
\* the loop that collects to_exclude and to_include from the configuration
RECURSIVE CollectRules(_, _)
CollectRules(metrics_config, st) ==
  IF metrics_config = <<>> THEN st
  ELSE LET metricname == metrics_config[1][1]
           metric_config == metrics_config[1][2]
           e1 == IF metric_config.has_exclude
                   THEN Put(st.to_exclude, metricname, metric_config.exclude)
                   ELSE st.to_exclude
           e2 == IF metric_config.has_include
                   THEN Put(e1, metricname, metric_config.include)
                   ELSE e1
       IN CollectRules(Tail(metrics_config), [to_exclude |-> e2, to_include |-> st.to_include])

\* apply_pattern(elements, exclude, include) for a list: the indices in
\* to_remove, or "E" when check_unit raises
RECURSIVE ToRemoveList(_, _, _, _, _)
ToRemoveList(elements, exclude, include, idx, rm) ==
  IF idx > Len(elements) THEN [rm |-> rm, err |-> "none"]
  ELSE LET unit == VDict(elements[idx])
           ex == IF Truthy(exclude) THEN check_unit("BenchRepo", idx - 1, unit, exclude)
                 ELSE "F"
           inc == IF Truthy(include) THEN check_unit("BenchRepo", idx - 1, unit, include)
                  ELSE "T"
       IN IF ex = "E" \/ inc = "E" THEN [rm |-> rm, err |-> "TypeError"]
          ELSE ToRemoveList(elements, exclude, include, idx + 1,
                            IF ex = "T" \/ inc = "F" THEN rm \cup {idx} ELSE rm)

\* `del elements[idx]` for the indices, from last to first
RECURSIVE DelIndices(_, _, _)
DelIndices(elements, rm, idx) ==
  IF idx = 0 THEN elements
  ELSE DelIndices(IF idx \in rm
                    THEN SubSeq(elements, 1, idx - 1) \o SubSeq(elements, idx + 1, Len(elements))
                    ELSE elements,
                  rm, idx - 1)

apply_pattern_list(elements, exclude, include) ==
  LET tr == ToRemoveList(elements, exclude, include, 1, {})
  IN IF tr.err # "none" THEN [elements |-> elements, err |-> tr.err]
     ELSE [elements |-> DelIndices(elements, tr.rm, Len(elements)), err |-> "none"]

\* get_metrics from the collection of the rules to the filtered current_data
get_metrics_filter(metrics_config, current_data) ==
  LET rules == CollectRules(metrics_config, [to_exclude |-> <<>>, to_include |-> <<>>])
  IN apply_pattern_list(current_data, RDict(rules.to_exclude), RDict(rules.to_include))

\* ------------------------------------------------ the inputs
MaxRows == 2

NoFilterConfig == [has_exclude |-> FALSE, exclude |-> NoRule,
                   has_include |-> FALSE, include |-> NoRule]
Include(rule) == [NoFilterConfig EXCEPT !.has_include = TRUE, !.include = rule]
Exclude(rule) == [NoFilterConfig EXCEPT !.has_exclude = TRUE, !.exclude = rule]

MetricsConfigs ==
  { << <<F_f, Include(RStr(<<"n">>))>>, <<F_g, NoFilterConfig>> >>,
    << <<F_f, Include(RList(<<RStr(<<"x">>), RStr(<<".", "1">>)>>))>> >>,
    << <<F_f, Exclude(RStr(<<"x">>))>> >>,
    << <<F_f, [Include(RStr(<<"n">>)) EXCEPT !.has_exclude = TRUE,
                                             !.exclude = RStr(<<"0">>)]>> >>,
    << <<F_f, Include(RStr(<<"x">>))>>, <<F_g, Exclude(RStr(<<"5">>))>> >> }

Rows ==
  { << <<F_f, VStr(E_n1)>> >>, << <<F_f, VStr(E_x0)>>, <<F_g, VStr(S_5)>> >>,
    << <<F_f, VStr(E_n0)>>, <<F_g, VStr(S_5)>> >>, << <<F_g, VStr(S_q)>> >> }
CurrentData == UNION { [1..n -> Rows] : n \in 0..MaxRows }

\* ------------------------------------------------ one source of get_metrics
InitMetrics ==
  /\ cls = "BenchRepo"
  /\ raw = <<>>
  /\ dict = <<>>
  /\ shared = {}
  /\ lml = NoFile
  /\ err = "none"
  /\ \E c \in MetricsConfigs : \E data \in CurrentData :
       last = [op |-> "init", x |-> [config |-> c, current_data |-> data], y |-> <<>>,
               pre |-> <<>>, preraw |-> <<>>, prelml |-> NoFile,
               prevop |-> "init", prevx |-> <<>>, prevy |-> <<>>]
  /\ steps = 0
  /\ aggregator = NoConfig
  /\ all_records = <<>>
  /\ outputs = <<>>
  /\ parser = <<>>
  /\ file = [name |-> <<>>, lines |-> <<>>]
  /\ raw_records = <<>>
  /\ final_records = <<>>
  /\ stage = "idle"
  /\ tracker = NoTracker
  /\ settled = {}
  /\ lastts = 0
  /\ plot = NoPool

GetMetricsFilter ==
  LET r == get_metrics_filter(last.x.config, last.x.current_data)
  IN /\ last.op = "init"
     /\ last' = [last EXCEPT !.op = "get_metrics", !.y = r.elements]
     /\ err' = r.err
     /\ steps' = steps + 1
     /\ UNCHANGED <<cls, raw, dict, shared, lml, aggregatorVars, parserVars, mainVars>>

NextMetrics == GetMetricsFilter

SpecMetrics == InitMetrics /\ [][NextMetrics]_vars

\* ================================================= claims on the filters
\* the value matches at least one pattern of the rule
MatchesRule(rule, value) ==
  IF rule.t = "str" THEN re_search(rule.v, value)
  ELSE \E p \in 1..Len(rule.v) : re_search(rule.v[p].v, value)

\* C18: a per-metric include rule keeps every record whose value of the
\* metric matches at least one pattern of the rule and removes every record
\* whose value matches none. Stated for the configurations whose only rule
\* is the include rule of one metric, over the records that have the metric.
C18_IncludeKeepsMatching ==
  \A m \in 1..Len(last.x.config) :
    LET metricname == last.x.config[m][1]
        metric_config == last.x.config[m][2]
        has(rec) == Has(rec, metricname)
        matches(rec) == MatchesRule(metric_config.include, Get(rec, metricname).v)
    IN ( /\ last.op = "get_metrics"
         /\ err = "none"
         /\ metric_config.has_include
         /\ \A o \in 1..Len(last.x.config) :
              /\ ~last.x.config[o][2].has_exclude
              /\ o # m => ~last.x.config[o][2].has_include )
       => SelectSeq(last.y, has) = SelectSeq(SelectSeq(last.x.current_data, has), matches)

\* ================================================= claims on add
\* C19: add(fields, add_to=T) changes only T and the mappings nested in it,
\* an empty T included: when `+` merges a store whose entity bk is a mapping
\* into a store that holds bk as a mapping T, bk's fields are merged into T,
\* and no other top-level key of the store is created or changed.
C19_AddChangesOnlyTarget ==
  last.op = "plus" =>
    /\ KeySet(dict) = KeySet(last.pre) \cup KeySet(last.x.dict)
    /\ \A bk \in KeySet(last.x.dict) :
         ( /\ Has(last.pre, bk)
           /\ Get(last.pre, bk).t = "dict"
           /\ Get(last.x.dict, bk).t = "dict" )
         => /\ Get(dict, bk).t = "dict"
            /\ KeySet(Get(dict, bk).v) =
                 KeySet(Get(last.pre, bk).v) \cup KeySet(Get(last.x.dict, bk).v)

\* ======================================================================
\* The LML outputs of a group whose index values resemble object names
\* ======================================================================
MaxNameRecords == 3

V_getG == <<"g", "e", "t", "G">>
NameRecords ==
  { << <<M_i, VStr(V_A)>> >>, << <<M_i, VStr(V_A)>>, <<M_v, VStr(V_10)>> >>,
    << <<M_i, VStr(V_getG)>> >>, << <<M_i, VStr(V_getG \o <<"_">> \o K_pstat)>> >> }

\* an aggregator of group G whose outputs are the file-mode and the
\* entry-mode LML file
NameAggregator ==
  [group_name |-> <<"G">>, default_map |-> <<>>, file_context |-> {},
   output_specs |-> <<OutputSpecs[1], OutputSpecs[4]>>]

InitNames ==
  /\ cls = "OutputAggregator"
  /\ raw = <<>>
  /\ dict = <<>>
  /\ shared = {}
  /\ lml = NoFile
  /\ err = "none"
  /\ last = [op |-> "init", x |-> <<>>, y |-> <<>>, pre |-> <<>>, preraw |-> <<>>,
             prelml |-> NoFile, prevop |-> "init", prevx |-> <<>>, prevy |-> <<>>]
  /\ steps = 0
  /\ aggregator = NameAggregator
  /\ all_records \in UNION { [1..n -> NameRecords] : n \in 0..MaxNameRecords }
  /\ outputs = <<>>
  /\ parser = <<>>
  /\ file = [name |-> <<>>, lines |-> <<>>]
  /\ raw_records = <<>>
  /\ final_records = <<>>
  /\ stage = "idle"
  /\ tracker = NoTracker
  /\ settled = {}
  /\ lastts = 0
  /\ plot = NoPool

NextNames == GenerateOutputs

SpecNames == InitNames /\ [][NextNames]_vars

\* ================================================= claims on the objects
\* the pstat objects of an LML output
PstatObjects(out) == { k \in 1..Len(out.data_dict) : IsPstat(out.data_dict[k][2].v) }

\* C21: every data row of _write_lml_output becomes one object of its own:
\* the number of non-pstat objects written equals the number of data rows
\* and the nelems value of the pstat object.
C21_OneObjectPerRow ==
  \A o \in 1..Len(outputs) :
    outputs[o].kind = "xml" =>
      /\ Len(outputs[o].file.objects) = Len(outputs[o].data_dict)
      /\ NonPstat(outputs[o]) = Len(outputs[o].rows)
      /\ \A k \in PstatObjects(outputs[o]) :
           Get(outputs[o].data_dict[k][2].v, <<"n", "e", "l", "e", "m", "s">>)
             = VInt(NonPstat(outputs[o]))

\* ================================================= claims on count
IsCountAll(ins) ==
  ins.aggregate = "count" /\ ins.source # <<>> /\ ~ins.unique /\ ins.wrap = <<>>
\* the records of the group of row g of output k
GroupOfRow(k, g) ==
  SelectSeq(all_records,
            LAMBDA rec : SameValue(get_value_with_default(aggregator.default_map, rec,
                                                          aggregator.output_specs[k].index),
                                   RowIndex(k)[g]))
\* the metric occurs in the record with a value that is not None
Occurs(rec, source) == Has(rec, source) /\ Get(rec, source).t # "none"

MaxRuns == 3

Paths == {"a", "b", "c"}

\* seen_files = paths_in_tracker & all_discoverable_files
SeenFiles(trk, all_discoverable_files) ==
  IF trk.exists THEN trk.paths \cap all_discoverable_files ELSE {}

\* the pruning branch of a run without new files
PruneTracker(trk, seen_files, all_discoverable_files) ==
  LET files_to_keep_in_tracker == seen_files \cap all_discoverable_files
  IN IF files_to_keep_in_tracker # seen_files
       THEN [exists |-> TRUE, paths |-> files_to_keep_in_tracker] ELSE trk

\* files_processed_ok_this_run after the loop over new_files_to_process
ProcessedOk(new_files_to_process, fate) ==
  { f \in new_files_to_process : fate[f] # "exception" }

\* `updated_seen_files = files_processed_ok_this_run` in its place
UpdatedSeen_OnlyNew(seen_files, files_processed_ok_this_run) == files_processed_ok_this_run
\* updated_seen_files = seen_files | files_processed_ok_this_run
UpdatedSeen(seen_files, files_processed_ok_this_run) ==
  seen_files \cup files_processed_ok_this_run

\* the tracker update at the end of the run
UpdateTracker(trk, seen_files, files_processed_ok_this_run, all_discoverable_files) ==
  LET final_files_for_tracker ==
        UpdatedSeen(seen_files, files_processed_ok_this_run) \cap all_discoverable_files
  IN IF final_files_for_tracker # seen_files
       THEN [exists |-> TRUE, paths |-> final_files_for_tracker] ELSE trk

\* the run of the group: the tracker after it, the files parsed, the files
\* whose records reached the aggregator, and whether the outputs were written
RunGroup(trk, all_discoverable_files, fate, output_fails) ==
  LET seen_files == SeenFiles(trk, all_discoverable_files)
      new_files_to_process == all_discoverable_files \ seen_files
      trk1 == IF new_files_to_process = {}
                THEN PruneTracker(trk, seen_files, all_discoverable_files) ELSE trk
      ok == ProcessedOk(new_files_to_process, fate)
  IN [tracker |-> UpdateTracker(trk1, seen_files, ok, all_discoverable_files),
      parsed |-> new_files_to_process,
      added |-> { f \in new_files_to_process : fate[f] = "ok" },
      processed_ok |-> ok,
      written |-> ~output_fails]

InitRuns ==
  /\ cls = "main"
  /\ raw = <<>>
  /\ dict = <<>>
  /\ shared = {}
  /\ lml = NoFile
  /\ err = "none"
  /\ last = [op |-> "init", x |-> <<>>, y |-> <<>>, pre |-> <<>>, preraw |-> <<>>,
             prelml |-> NoFile, prevop |-> "init", prevx |-> <<>>, prevy |-> <<>>]
  /\ steps = 0
  /\ aggregator = NoConfig
  /\ all_records = <<>>
  /\ outputs = <<>>
  /\ parser = <<>>
  /\ file = [name |-> <<>>, lines |-> <<>>]
  /\ raw_records = <<>>
  /\ final_records = <<>>
  /\ stage = "idle"
  /\ tracker = NoTracker
  /\ settled = {}
  /\ lastts = 0
  /\ plot = NoPool

\* one run of main for the group
Run ==
  \E all_discoverable_files \in SUBSET Paths :
    \E fate \in [Paths -> {"ok", "parse_error", "exception"}] :
      \E output_fails \in BOOLEAN :
        LET r == RunGroup(tracker, all_discoverable_files, fate, output_fails)
        IN /\ steps < MaxRuns
           \* the fate of a file that is not read plays no part
           /\ \A f \in Paths \ r.parsed : fate[f] = "ok"
           /\ tracker' = r.tracker
           /\ settled' = (settled \cap all_discoverable_files) \cup r.processed_ok
           /\ last' = [last EXCEPT
                         !.op = "run",
                         !.x = [all_discoverable_files |-> all_discoverable_files,
                                fate |-> fate, output_fails |-> output_fails],
                         !.y = [parsed |-> r.parsed, added |-> r.added,
                                written |-> r.written, settled |-> settled]]
           /\ steps' = steps + 1
           /\ UNCHANGED <<cls, raw, dict, shared, lml, err, aggregatorVars, parserVars, lastts, plot>>

NextRuns == Run

SpecRuns == InitRuns /\ [][NextRuns]_vars

C26_TrackerOnlyDiscoverable ==
  (last.op = "run" /\ tracker.exists) =>
    tracker.paths \subseteq last.x.all_discoverable_files

\* C27: a file whose content could not be read or parsed in a run is not in
\* the tracker at the end of that run.
C27_ParseErrorNotTracked ==
  last.op = "run" =>
    \A f \in last.y.parsed :
      last.x.fate[f] = "parse_error" => f \notin tracker.paths

\* C29: when writing an output of the group fails in a run, no file parsed
\* in that run is in the tracker at the end of the run.
C29_TrackedOnlyWhenWritten ==
  (last.op = "run" /\ ~last.y.written) =>
    tracker.paths \cap last.y.parsed = {}

\* ================================================= claims on _raw
\* the records of two stores have the same names, fields and values
SameRecords(d1, d2) ==
  /\ Len(d1) = Len(d2)
  /\ \A i \in 1..Len(d1) :
       /\ d1[i][1] = d2[i][1]
       /\ d1[i][2].t = d2[i][2].t
       /\ IF d1[i][2].t = "dict"
            THEN /\ KeySet(d1[i][2].v) = KeySet(d2[i][2].v)
                 /\ \A f \in KeySet(d1[i][2].v) :
                      SameValue(Get(d1[i][2].v, f), Get(d2[i][2].v, f))
            ELSE SameValue(d1[i][2], d2[i][2])

\* C25: after modify or to_LML acted on _dict, every record of _raw has the
\* fields and values it had before the call.
C25_RawUntouched ==
  last.op \in {"modify", "to_LML"} => SameRecords(raw, last.preraw)

\* ================================================= claims on the ids
\* C28: the ids written in one LML file are pairwise distinct, whether an
\* id was preset, generated in this call or generated by an earlier to_LML.
C28_IdsDistinct ==
  last.op \in {"to_LML", "bench"} =>
    \A i, j \in 1..Len(lml.objects) :
      i # j => lml.objects[i].id # lml.objects[j].id

\* ======================================================================
\* gitlab.py: main, the run of one benchmark group with a timestamp file
\* (no --singleLML). A source is a list of rows, reduced to the columns
\* systemname and ts, or a file that is neither .csv nor .json.
\* ======================================================================
K_systemname == <<"s", "y", "s">>
K_status == <<"s", "t", "a", "t", "u", "s">>
S_bm == <<"b", "m">>
S_benchmark == <<"b", "e", "n", "c", "h">>
S_G == <<"G">>
VBool(b) == [t |-> "bool", v |-> b]
\* a source: a .csv or .json file with the ts of its rows, or another file
Csv(rows) == [supported |-> TRUE, rows |-> rows]
Unsupported == [supported |-> FALSE, rows |-> <<>>]

SetMax(S) == CHOOSE m \in S : \A n \in S : n <= m

\* common_data: __type, __prefix and the id of the configuration, if any
CommonData(has_id, id) ==
  << <<K_type, VStr(S_benchmark)>>, <<K_prefix, VStr(S_bm)>> >>
    \o (IF has_id THEN << <<K_id, VStr(id)>> >> ELSE <<>>)

\* one line of a source with common_data and the status derived from the
\* metrics (here ts alone: it exists and is not the default -1)
BenchRow(ts, common_data) ==
  Put(Update(<< <<K_systemname, VStr(<<"s">>)>>, <<K_ts, VFloat(ts)>> >>, common_data),
      K_status, VBool(ts # 0 /\ ts # -1))

\* self._dict |= {f"{self._name}{idx}": data|{'id': ...} for idx,data in
\* zip(self._counter,current_data)}
RECURSIVE StoreRows(_, _, _)
StoreRows(d, rows, idx) ==
  IF rows = <<>> THEN d
  ELSE StoreRows(Put(d, S_G \o Decimal(idx), VDict(Put(rows[1], K_idfield, VStr(<<"s">>)))),
                 Tail(rows), idx + 1)

\* if self._lastts: current_data[:] = [data ... if data['ts'] > self._lastts]
OlderFiltered(self_lastts, current_data) ==
  IF self_lastts # 0
    THEN SelectSeq(current_data, LAMBDA data : Get(data, K_ts).v > self_lastts)
    ELSE current_data

\* the loop of get_metrics over the sources; st holds self._raw (the rows
\* of the benchmark), self._dict, self._counter and lastts_temp
RECURSIVE SourcesLoop(_, _, _, _)
SourcesLoop(st, sources, self_lastts, common_data) ==
  IF sources = <<>> THEN st
  ELSE IF ~sources[1].supported
    THEN SourcesLoop(st, Tail(sources), self_lastts, common_data)
  ELSE
    LET all_data == [k \in 1..Len(sources[1].rows) |-> BenchRow(sources[1].rows[k], common_data)]
        current_data == OlderFiltered(self_lastts, all_data)
        lastts_temp ==
          SetMax({Get(current_data[k], K_ts).v : k \in 1..Len(current_data)}
                   \cup {self_lastts, st.lastts_temp})
    IN SourcesLoop(
         [rows |-> st.rows \o all_data,
          d |-> IF current_data # <<>>
                  THEN StoreRows(st.d, current_data, st.counter) ELSE st.d,
          \* zip draws one more index than there are rows
          counter |-> IF current_data # <<>>
                        THEN st.counter + Len(current_data) + 1 ELSE st.counter,
          lastts_temp |-> lastts_temp],
         Tail(sources), self_lastts, common_data)

\* get_metrics of a BenchRepo created with lastts
get_metrics(sources, self_lastts, common_data) ==
  IF Len(sources) = 0
    THEN [success |-> FALSE, rows |-> <<>>, d |-> <<>>, lastts |-> self_lastts]
    ELSE LET st == SourcesLoop([rows |-> <<>>, d |-> <<>>, counter |-> 0, lastts_temp |-> 0],
                               sources, self_lastts, common_data)
         IN [success |-> TRUE, rows |-> st.rows, d |-> st.d, lastts |-> st.lastts_temp]

\* the timing record of main; the times of the clock are left at 0
Timing(nelems) ==
  << <<<<"g", "e", "t">> \o S_G,
       VDict(<< <<<<"s", "t", "a", "r", "t", "t", "s">>, VFloat(0)>>,
                <<<<"d", "a", "t", "a", "t", "s">>, VFloat(0)>>,
                <<<<"e", "n", "d", "t", "s">>, VFloat(0)>>,
                <<<<"d", "u", "r", "a", "t", "i", "o", "n">>, VFloat(0)>>,
                <<<<"n", "e", "l", "e", "m", "s">>, VInt(nelems)>>,
                <<K_nelems \o <<"_">> \o S_benchmark, VInt(nelems)>>,
                <<K_type, VStr(K_pstat)>>,
                <<K_id, VStr(K_pstat \o <<"_", "g", "e", "t">> \o S_G)>> >>)>> >>

TsValues == {1, 2, 3}
SourceFiles ==
  {Unsupported, Csv(<<>>)} \cup {Csv(<<t>>) : t \in TsValues}
    \cup {Csv(<<t, u>>) : t \in TsValues, u \in TsValues}
Sources == {<<>>} \cup {<<s>> : s \in SourceFiles}
             \cup {<<s, t>> : s \in SourceFiles, t \in {Unsupported, Csv(<<1>>), Csv(<<2, 3>>)}}
ConfigIds == {[has_id |-> FALSE, id |-> <<>>], [has_id |-> TRUE, id |-> <<"b", "7">>]}

InitBench ==
  /\ cls = "BenchRepo"
  /\ raw = <<>>
  /\ dict = <<>>
  /\ shared = {}
  /\ lml = NoFile
  /\ err = "none"
  /\ last = [op |-> "init", x |-> <<>>, y |-> <<>>, pre |-> <<>>, preraw |-> <<>>,
             prelml |-> NoFile, prevop |-> "init", prevx |-> <<>>, prevy |-> <<>>]
  /\ steps = 0
  /\ aggregator = NoConfig
  /\ all_records = <<>>
  /\ outputs = <<>>
  /\ parser = <<>>
  /\ file = [name |-> <<>>, lines |-> <<>>]
  /\ raw_records = <<>>
  /\ final_records = <<>>
  /\ stage = "idle"
  /\ tracker = NoTracker
  /\ settled = {}
  /\ lastts = 0
  /\ plot = NoPool

\* one run of main for the group: the timestamp file is read, a BenchRepo
\* collects the metrics, its LML file is written, the timestamp file is
\* written
BenchRun ==
  \E sources \in Sources, config \in ConfigIds :
    LET m == get_metrics(sources, lastts, CommonData(config.has_id, config.id))
        withtiming == add([d |-> m.d, w |-> {}], Timing(Len(m.d)), <<>>).d
        r == to_LML("BenchRepo", withtiming, FALSE, <<>>, <<>>)
    IN /\ steps < MaxRuns
       /\ steps' = steps + 1
       /\ last' = [last EXCEPT !.op = "bench",
                               !.x = [sources |-> sources, config |-> config],
                               !.y = [lastts |-> lastts, success |-> m.success]]
       /\ IF m.success
            THEN /\ lastts' = m.lastts
                 /\ raw' = << <<S_G, [t |-> "list", v |-> m.rows]>> >>
                 /\ dict' = r.d
                 /\ lml' = r.file
                 /\ err' = r.err
            ELSE /\ lastts' = lastts
                 /\ raw' = <<>>
                 /\ dict' = <<>>
                 /\ lml' = NoFile
                 /\ err' = "none"
       /\ UNCHANGED <<cls, shared, aggregatorVars, parserVars, tracker, settled, plot>>

NextBench == BenchRun

SpecBench == InitBench /\ [][NextBench]_vars

\* the ts of the benchmark records written in the LML file of the run
WrittenTs ==
  {Get(dict[k][2].v, K_ts).v : k \in {j \in 1..Len(dict) : Has(dict[j][2].v, K_ts)}}

\* C30: across successive runs of a benchmark group with a timestamp file
\* the stored lastts never decreases, and every record placed in the LML
\* output of a run has a ts strictly greater than the lastts stored by the
\* previous run.
C30_LastTsMonotone ==
  last.op = "bench" =>
    /\ lastts >= last.y.lastts
    /\ last.y.success => \A ts \in WrittenTs : ts > last.y.lastts

\* ======================================================================
\* jureptool/src/main.py: process_plotlist. The main thread submits the
\* jobs with apply_async, closes the pool and joins it; the workers of the
\* pool run the jobs; the result handler of the pool runs the callback of
\* each finished job in the order the results arrive; the shutdown file is
\* created from outside at any time.
\* ======================================================================
MaxJobs == 3
NProcs == 2

JobsIn(status) == {j \in 1..Len(plot.jobs) : plot.jobs[j] = status}

\* check_shutdown()
check_shutdown == plot.shutdown_file

\* pool.terminate(): the workers are stopped, nothing queued is started and
\* no further result is handled
Terminate(p) ==
  [p EXCEPT !.pool = "terminated",
            !.results = <<>>,
            !.jobs = [j \in 1..Len(p.jobs) |->
                        IF p.jobs[j] = "running" THEN "killed" ELSE p.jobs[j]]]

\* check_shutdown_callback(self), the callback of a job that returned
check_shutdown_callback(p) == IF check_shutdown THEN Terminate(p) ELSE p

\* error_handler(e), the error_callback of a job that raised
error_handler(p) == [p EXCEPT !.nerrors = p.nerrors + 1]

InitPlot ==
  /\ cls = "process_plotlist"
  /\ raw = <<>>
  /\ dict = <<>>
  /\ shared = {}
  /\ lml = NoFile
  /\ err = "none"
  /\ last = [op |-> "init", x |-> <<>>, y |-> <<>>, pre |-> <<>>, preraw |-> <<>>,
             prelml |-> NoFile, prevop |-> "init", prevx |-> <<>>, prevy |-> <<>>]
  /\ steps = 0
  /\ aggregator = NoConfig
  /\ all_records = <<>>
  /\ outputs = <<>>
  /\ parser = <<>>
  /\ file = [name |-> <<>>, lines |-> <<>>]
  /\ raw_records = <<>>
  /\ final_records = <<>>
  /\ stage = "idle"
  /\ tracker = NoTracker
  /\ settled = {}
  /\ lastts = 0
  /\ plot = [jobs |-> [j \in 1..MaxJobs |-> "new"], results |-> <<>>,
             shutdown_file |-> FALSE, pool |-> "open", nerrors |-> 0,
             returned |-> FALSE]

PlotStep(op, job) ==
  /\ last' = [last EXCEPT !.op = op, !.x = job,
                          !.y = [shutdown_file |-> plot.shutdown_file,
                                 queued |-> JobsIn("queued"),
                                 pool |-> plot.pool]]
  /\ UNCHANGED <<cls, raw, dict, shared, lml, steps, aggregatorVars, parserVars,
                 tracker, settled, lastts>>

Working == plot.pool \in {"open", "terminated"} /\ err = "none" /\ ~plot.returned

\* the main thread: pool.apply_async(ProcessReport, ...) for the next job;
\* on a pool that was terminated meanwhile it raises ValueError
ApplyAsync ==
  /\ Working
  /\ JobsIn("new") # {}
  /\ LET j == CHOOSE i \in JobsIn("new") : \A k \in JobsIn("new") : i <= k
     IN IF plot.pool = "open"
          THEN /\ plot' = [plot EXCEPT !.jobs[j] = "queued"]
               /\ err' = "none"
          ELSE /\ plot' = plot
               /\ err' = "ValueError"
  /\ PlotStep("apply_async", 0)

\* a worker of the pool takes the next queued job
StartJob ==
  /\ plot.pool = "open"
  /\ JobsIn("queued") # {}
  /\ Cardinality(JobsIn("running")) < NProcs
  /\ LET j == CHOOSE i \in JobsIn("queued") : \A k \in JobsIn("queued") : i <= k
     IN /\ plot' = [plot EXCEPT !.jobs[j] = "running"]
        /\ PlotStep("start", j)
  /\ UNCHANGED err

\* ProcessReport returns or raises in its worker
FinishJob ==
  \E j \in JobsIn("running"), ok \in BOOLEAN :
    /\ plot.pool = "open"
    /\ plot' = [plot EXCEPT !.jobs[j] = IF ok THEN "done" ELSE "failed",
                            !.results = Append(plot.results, [job |-> j, ok |-> ok])]
    /\ PlotStep("finish", j)
    /\ UNCHANGED err

\* the result handler runs the callback of the next result
Callback ==
  /\ plot.pool = "open"
  /\ plot.results # <<>>
  /\ LET res == Head(plot.results)
         p == [plot EXCEPT !.results = Tail(plot.results)]
     IN /\ plot' = IF res.ok THEN check_shutdown_callback(p) ELSE error_handler(p)
        /\ PlotStep("callback", res.job)
  /\ UNCHANGED err

\* the shutdown file appears
CreateShutdownFile ==
  /\ plot.pool = "open"
  /\ ~plot.shutdown_file
  /\ ~plot.returned
  /\ plot' = [plot EXCEPT !.shutdown_file = TRUE]
  /\ PlotStep("shutdown_file", 0)
  /\ UNCHANGED err

\* the main thread: pool.close(); pool.join() returns once the pool was
\* terminated, or every job finished and every callback ran
CloseJoin ==
  /\ Working
  /\ JobsIn("new") = {}
  /\ \/ plot.pool = "terminated"
     \/ /\ JobsIn("queued") \cup JobsIn("running") = {}
        /\ plot.results = <<>>
  /\ plot' = [plot EXCEPT !.returned = TRUE]
  /\ PlotStep("return", 0)
  /\ UNCHANGED err

NextPlot == ApplyAsync \/ StartJob \/ FinishJob \/ Callback \/ CreateShutdownFile \/ CloseJoin

SpecPlot == InitPlot /\ [][NextPlot]_vars

\* ================================================= claims on the pool
\* C24: once the shutdown file exists while jobs are still queued in the
\* pool, the pool is terminated after the next job completion, successful
\* or failed (the callback of that completion leaves the pool terminated),
\* and no job is started in a terminated pool.
C24_ShutdownTerminatesPool ==
  /\ (last.op = "callback" /\ last.y.shutdown_file /\ last.y.queued # {})
       => plot.pool = "terminated"
  /\ last.op = "start" => last.y.pool # "terminated"

====
